---- MODULE Spec2Model ----
(***************************************************************************)
(* Mgit: the asynchronous Git executor (src/src/utils/git_thread.py), the  *)
(* way GitPanel drives it (src/src/components/git_panel.py) and the OAuth  *)
(* callback listener (src/src/utils/oauth_handler.py) and the Git handle   *)
(* (src/src/utils/git_manager.py).                                         *)
(*                                                                         *)
(* Spec           : the executor, its worker thread and the UI thread.     *)
(* PanelSpec      : the same with GitPanel's event loop and direct calls.  *)
(* RecordedSpec   : the executor, the fields at each start() written down. *)
(* SubscriberSpec : GitPanel's requests and their one-shot slots.          *)
(* OAuthSpec      : the callback listener, its serving thread and the UI.  *)
(* ListenerSpec   : the same within a budget of UI events.                 *)
(* PortSpec       : the choice of the listener's port.                     *)
(* ClassifySpec   : the classification of failure texts.                   *)
(* RepoSpec       : the handle's remote and sync operations.               *)
(* DirSpec        : initRepository and commit on a directory.              *)
(* UrlSpec        : sanitize_url.                                          *)
(***************************************************************************)
EXTENDS Integers, Sequences, FiniteSets, TLC

VARIABLES
    \* ---- GitThread fields (git_thread.py:15-19)
    operation,      \* self.operation
    git_manager,    \* self.git_manager
    params,         \* self.params: 0 is the {} of __init__, n the dict of the n-th setup() call
    \* ---- QThread state and the worker runs
    running,        \* QThread.isRunning()
    run,            \* number of runs of run() begun so far
    wpc,            \* wpc[r]: position of run r inside run()
    wi,             \* wi[r]: index of the if/elif branch run r tests or executes
    werr,           \* werr[r]: the exception run r has in flight (or had), NoErr if none
    seen,           \* seen[r]: what line 35 read for run r
    atstart,        \* atstart[r]: the fields as they were when start() began run r
    \* ---- observable history
    events,         \* signals emitted by the worker, in order
    calls,          \* operations the worker invoked, in order
    ignored,        \* number of start() calls that found the thread running
    \* ---- UI thread (GitPanel)
    uipc,           \* "idle", "setup_gm", "setup_params", "direct"
    uiarg,          \* the git_manager argument of the setup() call in progress
    nsetup,         \* number of setup() calls made
    delivered,      \* number of events the UI thread has processed (queued connections)
    mask,           \* GitPanel.loadingMask is shown
    inflight,       \* threads currently inside an operation of the Repository Handle
    ndirect,        \* number of direct UI-thread handle operations begun
    \* ---- OAuthHandler fields (oauth_handler.py:207-225)
    server,             \* self.server
    server_thread,      \* self.server_thread
    port,               \* self.port
    github_redirect_uri,
    gitlab_redirect_uri,
    client_id,          \* client_id[p]: self.<p>_client_id is set
    \* ---- the HTTPServer of socketserver and the threads that use it
    shutdown_request,   \* BaseServer.__shutdown_request
    is_shut_down,       \* BaseServer.__is_shut_down (a threading.Event)
    opc,                \* opc.ui, opc.srv: positions of the UI and the serving thread
    backlog,            \* connections waiting on the listening socket
    cur,                \* the request the handler is serving
    reply,              \* the status the handler is about to send
    \* ---- observable history
    responses,          \* HTTP responses sent, in order
    signals,            \* <provider>AuthSuccess / <provider>AuthFailed emitted, in order
    opened,             \* authorization URLs given to webbrowser.open
    pending,            \* providers whose flow was started and has had no result yet
    nreq,               \* number of requests sent to the listener
    nflow,              \* number of start_<provider>_auth calls
    bound,              \* the port the socket of self.server is bound to
    dialog,             \* the AccountDialog that owns the handler: "open", "closed"
    nstop,              \* number of stop_server calls made from the UI thread
    \* ---- start_server step by step, and the ports of the machine
    taken,              \* ports other processes hold
    ppc,                \* position inside start_server
    pidx,               \* index of the candidate find_available_port is trying
    probes,             \* what the bind attempts of this call found, in order
    selected,           \* the port find_available_port returned (self.port)
    lport,              \* the port the HTTPServer listens on, NoPort if none
    nstart,             \* number of start_server calls
    \* ---- the failure classification of GitManager
    cop,                \* the operation whose git command failed
    ctext,              \* str(e) of the GitCommandError
    cbranch,            \* cloneRepository was given a branch
    cresult,            \* the exception the operation raises for it
    \* ---- one GitManager and the directory it is bound to
    metadata,           \* repo_path/.git exists
    repo,               \* self.repo; None while no GitManager has been constructed
    remotes,            \* the remotes of the repository configuration, in order
    head,               \* the branch that is checked out
    last,               \* the last operation called and how it ended
    syncpc,             \* position inside syncWithRemote: "idle", "pull", "push"
    syncarg,            \* its remote, the branch given and the branch resolved
    synclog,            \* the git commands the current syncWithRemote has run
    nop,                \* number of operations called
    \* ---- a directory, its files and the repository in it
    exists,             \* os.path.exists(path)
    worktree,           \* worktree[f]: the content of file f, None if absent
    dotgit,             \* path/.git exists
    hbranch,            \* the branch HEAD names
    index,              \* index[f]: the staged content of file f
    history,            \* the commits of the branch, oldest first
    dlast,              \* the last initRepository or commit call and how it ended
    ndir,               \* number of steps taken on the directory
    \* ---- calls of sanitize_url
    upc,                \* "idle", "input", "once", "twice"
    uin,                \* the string given to sanitize_url
    uout,               \* sanitize_url(uin)
    uagain,             \* sanitize_url(uout)
    \* ---- GitPanel's requests and the slots connected to operationFinished
    handler,            \* the request handler the UI thread is inside
    subs,               \* the one-shot slots connected and not yet disconnected
    invoked,            \* which slot was called for which event
    requests            \* the requests whose handler has returned, in order

execVars == <<operation, git_manager, params, running, run, wpc, wi, werr, seen,
              atstart,
              events, calls, ignored, uipc, uiarg, nsetup, delivered, mask,
              inflight, ndirect>>

oauthVars == <<server, server_thread, port, github_redirect_uri,
               gitlab_redirect_uri, client_id, shutdown_request, is_shut_down, opc,
               backlog, cur, reply, responses, signals, opened, pending, nreq,
               nflow, bound, dialog, nstop>>

classifyVars == <<cop, ctext, cbranch, cresult>>

repoVars == <<metadata, repo, remotes, head, last, syncpc, syncarg, synclog, nop>>

portVars == <<taken, ppc, pidx, probes, selected, lport, nstart>>

dirVars == <<exists, worktree, dotgit, hbranch, index, history, dlast, ndir>>

urlVars == <<upc, uin, uout, uagain>>

subVars == <<handler, subs, invoked, requests>>

\* What the actions of one component leave alone.
nonPanelVars ==
    <<oauthVars, portVars, classifyVars, repoVars, dirVars, urlVars>>

nonExecVars == <<nonPanelVars, subVars>>

nonOAuthVars ==
    <<execVars, portVars, classifyVars, repoVars, dirVars, urlVars, subVars>>

nonPortVars ==
    <<execVars, oauthVars, classifyVars, repoVars, dirVars, urlVars, subVars>>

nonClassifyVars ==
    <<execVars, oauthVars, portVars, repoVars, dirVars, urlVars, subVars>>

nonRepoVars ==
    <<execVars, oauthVars, portVars, classifyVars, dirVars, urlVars, subVars>>

nonDirVars ==
    <<execVars, oauthVars, portVars, classifyVars, repoVars, urlVars, subVars>>

nonUrlVars ==
    <<execVars, oauthVars, portVars, classifyVars, repoVars, dirVars, subVars>>

vars == <<execVars, oauthVars, portVars, classifyVars, repoVars, dirVars, urlVars,
          subVars>>

----------------------------------------------------------------------------
\* Bounds of the model.
\* The number of setup() and start() calls the UI thread makes.
MaxCalls == 4
\* The number of handle operations GitPanel runs on the UI thread itself.
MaxDirect == 1

\* Python's None.
None == "None"

\* The one Repository Handle of GitPanel (self.gitManager).
Handle == "gm"

\* The names run() dispatches on, in the order of its if/elif chain.
Branches == <<"pull", "push", "fetch", "commit", "sync", "init", "clone">>

\* The branches that call a method using the handle's repository; init and clone
\* call static factory methods.
HandleBranches == {"pull", "push", "fetch", "commit", "sync"}

\* Operation names given to setup(): names of the chain and one name outside it.
SetupOps == {"pull", "commit", "init", "clone", "rebase"}

\* Handles given to setup(): GitPanel passes self.gitManager, or None for init/clone.
SetupHandles == {None, Handle}

NoErr == [cls |-> None, msg |-> None]

\* Exceptions the operations raise: pull/push wrap failures in Exception,
\* commit lets git.exc.GitCommandError through.
OpErrors == {[cls |-> "Exception", msg |-> "host_unreachable"],
             [cls |-> "GitCommandError", msg |-> "git_failed"]}

\* self.git_manager.<method> with self.git_manager None.
NoneTypeError == [cls |-> "AttributeError", msg |-> "NoneType_has_no_attribute"]

Runs == 1..MaxCalls

\* operationStarted.emit(name) / operationFinished.emit(ok, name, message) of run r.
\* A message is a pair <<kind, detail>>.
Started(r, name) ==
    [sig |-> "started", run |-> r, ok |-> TRUE, op |-> name, msg |-> <<"", "">>]

Finished(r, success, name, message) ==
    [sig |-> "finished", run |-> r, ok |-> success, op |-> name, msg |-> message]

\* The calls the UI thread has made so far.
CallsMade == nsetup + run + ignored

Active(r) == wpc[r] \notin {"none", "done"}

ExecInit ==
    /\ operation = None
    /\ git_manager = None
    /\ params = 0
    /\ running = FALSE
    /\ run = 0
    /\ wpc = [r \in Runs |-> "none"]
    /\ wi = [r \in Runs |-> 0]
    /\ werr = [r \in Runs |-> NoErr]
    /\ seen = [r \in Runs |-> [op |-> None, gm |-> None]]
    /\ atstart = [r \in Runs |-> [op |-> None, gm |-> None, params |-> 0]]
    /\ events = <<>>
    /\ calls = <<>>
    /\ ignored = 0
    /\ uipc = "idle"
    /\ uiarg = None
    /\ nsetup = 0
    /\ delivered = 0
    /\ mask = FALSE
    /\ inflight = {}
    /\ ndirect = 0

----------------------------------------------------------------------------
\* GitThread.setup: three assignments, each a step of the UI thread.

SetupOperation(op, gm) ==
    /\ uipc = "idle"
    /\ CallsMade < MaxCalls
    /\ operation' = op
    /\ uiarg' = gm
    /\ nsetup' = nsetup + 1
    /\ uipc' = "setup_gm"
    /\ UNCHANGED <<git_manager, params, running, run, wpc, wi, werr, seen, events,
                   calls, ignored, delivered, mask, inflight, ndirect>>
    /\ UNCHANGED atstart
    /\ UNCHANGED nonExecVars

SetupHandle ==
    /\ uipc = "setup_gm"
    /\ git_manager' = uiarg
    /\ uipc' = "setup_params"
    /\ UNCHANGED <<operation, params, running, run, wpc, wi, werr, seen, events,
                   calls, ignored, uiarg, nsetup, delivered, mask, inflight,
                   ndirect>>
    /\ UNCHANGED atstart
    /\ UNCHANGED nonExecVars

SetupParams ==
    /\ uipc = "setup_params"
    /\ params' = nsetup
    /\ uipc' = "idle"
    /\ UNCHANGED <<operation, git_manager, running, run, wpc, wi, werr, seen,
                   events, calls, ignored, uiarg, nsetup, delivered, mask,
                   inflight, ndirect>>
    /\ UNCHANGED atstart
    /\ UNCHANGED nonExecVars

\* A start() that begins a run whatever the thread is doing.
StartNeverIgnored == FALSE

\* QThread.start(): does nothing when the thread is already running.
StartIgnored == running

\* GitThread.start() called by the UI thread.
StartThread ==
    /\ uipc = "idle"
    /\ CallsMade < MaxCalls
    /\ IF StartIgnored
          THEN /\ ignored' = ignored + 1
               /\ UNCHANGED <<running, run, wpc>>
          ELSE /\ ignored' = ignored
               /\ running' = TRUE
               /\ run' = run + 1
               /\ wpc' = [wpc EXCEPT ![run + 1] = "check"]
    /\ UNCHANGED <<operation, git_manager, params, wi, werr, seen, events, calls,
                   uipc, uiarg, nsetup, delivered, mask, inflight, ndirect>>
    /\ UNCHANGED nonExecVars

Start == StartThread /\ UNCHANGED atstart

\* The same call, with the fields as setup() left them written down for the
\* run it begins.
StartRecorded ==
    /\ StartThread
    /\ atstart' = IF run' = run THEN atstart
                  ELSE [atstart EXCEPT ![run'] = [op |-> operation,
                                                  gm |-> git_manager,
                                                  params |-> params]]

----------------------------------------------------------------------------
\* GitThread.run, one step per read of the shared fields.

\* Line 35: if not self.operation or not self.git_manager.
NotSetUp == operation = None \/ git_manager = None

RunCheck(r) ==
    /\ wpc[r] = "check"
    /\ seen' = [seen EXCEPT ![r] = [op |-> operation, gm |-> git_manager]]
    /\ IF NotSetUp
          THEN /\ events' = Append(events,
                     Finished(r, FALSE, "unknown_operation", <<"not_set_up", "">>))
               /\ wpc' = [wpc EXCEPT ![r] = "return"]
          ELSE /\ events' = events
               /\ wpc' = [wpc EXCEPT ![r] = "emit_started"]
    /\ UNCHANGED <<operation, git_manager, params, running, run, wi, werr, calls,
                   ignored, uipc, uiarg, nsetup, delivered, mask, inflight,
                   ndirect>>
    /\ UNCHANGED atstart
    /\ UNCHANGED nonExecVars

\* Line 43.
RunEmitStarted(r) ==
    /\ wpc[r] = "emit_started"
    /\ events' = Append(events, Started(r, operation))
    /\ wpc' = [wpc EXCEPT ![r] = "test"]
    /\ wi' = [wi EXCEPT ![r] = 1]
    /\ UNCHANGED <<operation, git_manager, params, running, run, werr, seen, calls,
                   ignored, uipc, uiarg, nsetup, delivered, mask, inflight,
                   ndirect>>
    /\ UNCHANGED atstart
    /\ UNCHANGED nonExecVars

\* One comparison of the if/elif chain (lines 47, 53, 60, 65, 71, 77, 83).
RunTest(r) ==
    /\ wpc[r] = "test"
    /\ IF operation = Branches[wi[r]]
          THEN wpc' = [wpc EXCEPT ![r] = "invoke"] /\ wi' = wi
          ELSE IF wi[r] < Len(Branches)
                  THEN wi' = [wi EXCEPT ![r] = wi[r] + 1] /\ wpc' = wpc
                  ELSE wi' = [wi EXCEPT ![r] = 0]
                       /\ wpc' = [wpc EXCEPT ![r] = "unknown"]
    /\ UNCHANGED <<operation, git_manager, params, running, run, werr, seen, events,
                   calls, ignored, uipc, uiarg, nsetup, delivered, mask,
                   inflight, ndirect>>
    /\ UNCHANGED atstart
    /\ UNCHANGED nonExecVars

\* The else branch without its return: control reaches line 100.
AfterUnknownFallsThrough == "emit_ok"

\* Line 96: the else branch returns after its emit.
AfterUnknown == "return"

\* Lines 92-96.
RunUnknown(r) ==
    /\ wpc[r] = "unknown"
    /\ events' = Append(events,
          Finished(r, FALSE, operation, <<"unknown_operation", operation>>))
    /\ wpc' = [wpc EXCEPT ![r] = AfterUnknown]
    /\ UNCHANGED <<operation, git_manager, params, running, run, wi, werr, seen,
                   calls, ignored, uipc, uiarg, nsetup, delivered, mask,
                   inflight, ndirect>>
    /\ UNCHANGED atstart
    /\ UNCHANGED nonExecVars

\* The branch body up to the call: self.params.get(...), then
\* self.git_manager.<method>(...), which raises AttributeError on None.
RunInvoke(r) ==
    /\ wpc[r] = "invoke"
    /\ IF git_manager = None
          THEN /\ werr' = [werr EXCEPT ![r] = NoneTypeError]
               /\ wpc' = [wpc EXCEPT ![r] = "except"]
               /\ UNCHANGED <<calls, inflight>>
          ELSE /\ calls' = Append(calls, [run |-> r, branch |-> Branches[wi[r]],
                                          params |-> params, gm |-> git_manager])
               /\ inflight' = IF Branches[wi[r]] \in HandleBranches
                                 THEN inflight \cup {<<"worker", r>>}
                                 ELSE inflight
               /\ wpc' = [wpc EXCEPT ![r] = "in_op"]
               /\ werr' = werr
    /\ UNCHANGED <<operation, git_manager, params, running, run, wi, seen, events,
                   ignored, uipc, uiarg, nsetup, delivered, mask, ndirect>>
    /\ UNCHANGED atstart
    /\ UNCHANGED nonExecVars

\* The operation returns or raises.
RunOpReturn(r, outcome) ==
    /\ wpc[r] = "in_op"
    /\ inflight' = inflight \ {<<"worker", r>>}
    /\ IF outcome = NoErr
          THEN wpc' = [wpc EXCEPT ![r] = "emit_ok"] /\ werr' = werr
          ELSE wpc' = [wpc EXCEPT ![r] = "except"]
               /\ werr' = [werr EXCEPT ![r] = outcome]
    /\ UNCHANGED <<operation, git_manager, params, running, run, wi, seen, events,
                   calls, ignored, uipc, uiarg, nsetup, delivered, mask, ndirect>>
    /\ UNCHANGED atstart
    /\ UNCHANGED nonExecVars

\* The result text of the branch taken (lines 51, 58, 63, 69, 75, 81, 90).
Result(r) == <<"result", IF wi[r] = 0 THEN None ELSE Branches[wi[r]]>>

\* Lines 98-100.
RunEmitOk(r) ==
    /\ wpc[r] = "emit_ok"
    /\ events' = Append(events, Finished(r, TRUE, operation, Result(r)))
    /\ wpc' = [wpc EXCEPT ![r] = "return"]
    /\ UNCHANGED <<operation, git_manager, params, running, run, wi, werr, seen,
                   calls, ignored, uipc, uiarg, nsetup, delivered, mask,
                   inflight, ndirect>>
    /\ UNCHANGED atstart
    /\ UNCHANGED nonExecVars

\* An except clause that names git.exc.GitCommandError alone.
CatchesGitCommandErrorOnly(cls) == cls = "GitCommandError"

\* Line 102: except Exception. Every class the operations raise derives from it.
Catches(cls) == cls \in {"Exception", "GitCommandError", "AttributeError"}

\* Lines 102-106.
RunExcept(r) ==
    /\ wpc[r] = "except"
    /\ IF Catches(werr[r].cls)
          THEN /\ events' = Append(events,
                     Finished(r, FALSE, operation, <<"error", werr[r].msg>>))
               /\ wpc' = [wpc EXCEPT ![r] = "return"]
          ELSE /\ events' = events
               /\ wpc' = [wpc EXCEPT ![r] = "escaped"]
    /\ UNCHANGED <<operation, git_manager, params, running, run, wi, werr, seen,
                   calls, ignored, uipc, uiarg, nsetup, delivered, mask,
                   inflight, ndirect>>
    /\ UNCHANGED atstart
    /\ UNCHANGED nonExecVars

\* run() returns: the thread is no longer running.
RunReturn(r) ==
    /\ wpc[r] = "return"
    /\ wpc' = [wpc EXCEPT ![r] = "done"]
    /\ running' = FALSE
    /\ UNCHANGED <<operation, git_manager, params, run, wi, werr, seen, events,
                   calls, ignored, uipc, uiarg, nsetup, delivered, mask,
                   inflight, ndirect>>
    /\ UNCHANGED atstart
    /\ UNCHANGED nonExecVars

----------------------------------------------------------------------------
\* GitPanel on the UI thread.

\* The queued slots onGitOperationStarted / onGitOperationFinished: the mask is
\* shown on started and hidden on finished.
DeliverEvent ==
    /\ uipc = "idle"
    /\ delivered < Len(events)
    /\ mask' = (events[delivered + 1].sig = "started")
    /\ delivered' = delivered + 1
    /\ UNCHANGED <<operation, git_manager, params, running, run, wpc, wi, werr,
                   seen, events, calls, ignored, uipc, uiarg, nsetup, inflight,
                   ndirect>>
    /\ UNCHANGED atstart
    /\ UNCHANGED nonPanelVars

\* The event loop of a panel that has connected no other slot.
ProcessEvent == DeliverEvent /\ UNCHANGED subVars

\* What GitPanel checks before calling the handle itself: the panel is not
\* covered by the mask. It does not ask the executor whether it is running.
DirectAllowed == ~mask

\* A handler that calls the handle on the UI thread (importFromGitHub,
\* onBranchSelected, stashChanges, ...): the call is entered ...
DirectBegin ==
    /\ uipc = "idle"
    /\ DirectAllowed
    /\ ndirect < MaxDirect
    /\ ndirect' = ndirect + 1
    /\ inflight' = inflight \cup {<<"ui", 0>>}
    /\ uipc' = "direct"
    /\ UNCHANGED <<operation, git_manager, params, running, run, wpc, wi, werr,
                   seen, events, calls, ignored, uiarg, nsetup, delivered, mask>>
    /\ UNCHANGED atstart
    /\ UNCHANGED nonExecVars

\* ... and returns (or raises into the handler's own except).
DirectEnd ==
    /\ uipc = "direct"
    /\ inflight' = inflight \ {<<"ui", 0>>}
    /\ uipc' = "idle"
    /\ UNCHANGED <<operation, git_manager, params, running, run, wpc, wi, werr,
                   seen, events, calls, ignored, uiarg, nsetup, delivered, mask,
                   ndirect>>
    /\ UNCHANGED atstart
    /\ UNCHANGED nonExecVars

----------------------------------------------------------------------------
\* setup() on the UI thread and run() on the worker thread.
ExecSteps ==
    \/ \E op \in SetupOps, gm \in SetupHandles : SetupOperation(op, gm)
    \/ SetupHandle
    \/ SetupParams
    \/ \E r \in Runs : RunCheck(r)
    \/ \E r \in Runs : RunEmitStarted(r)
    \/ \E r \in Runs : RunTest(r)
    \/ \E r \in Runs : RunUnknown(r)
    \/ \E r \in Runs : RunInvoke(r)
    \/ \E r \in Runs, outcome \in {NoErr} \cup OpErrors : RunOpReturn(r, outcome)
    \/ \E r \in Runs : RunEmitOk(r)
    \/ \E r \in Runs : RunExcept(r)
    \/ \E r \in Runs : RunReturn(r)

ExecNext == Start \/ ExecSteps

RecordedNext == StartRecorded \/ ExecSteps

\* The executor together with GitPanel's own use of the handle.
PanelNext ==
    \/ ExecNext
    \/ ProcessEvent
    \/ DirectBegin
    \/ DirectEnd

----------------------------------------------------------------------------
\* The OAuth callback listener (oauth_handler.py).

\* The number of requests sent to the listener, and of flows started.
MaxRequests == 2
MaxFlows == 2

\* The number of stop_server calls made from the UI thread.
MaxStops == 2

Providers == {"github", "gitlab"}

\* self.available_ports (line 214).
AvailablePorts == <<8000, 8080, 9000, 9090, 10000, 10800>>

\* find_available_port returns None when it can bind nothing; None and 0 are
\* the same to the test of line 270.
NoPort == 0

\* Ports other processes hold when start_server looks for one, and the port
\* the system hands out for bind((host, 0)) (NoPort: that bind fails too).
BusySets == {{}, {8000, 8080, 9000, 9090, 10000, 10800}}
EphemeralPorts == {49152, NoPort}

\* Lines 227-252: the first candidate that can be bound, else the system's port.
find_available_port(busy, ephemeral) ==
    LET free == {i \in DOMAIN AvailablePorts : AvailablePorts[i] \notin busy}
    IN  IF free # {}
           THEN AvailablePorts[CHOOSE i \in free : \A j \in free : i <= j]
           ELSE ephemeral

\* f"http://{self.host}:{self.port}/<provider>/callback" (lines 220, 225, 256, 257).
CallbackPath(p) == IF p = "github" THEN "/github/callback" ELSE "/gitlab/callback"

\* The mutant of RedirectUri: the URI is built with the default port.
RedirectUriDefaultPort(pt, p) ==
    [host |-> "localhost", port |-> AvailablePorts[1], path |-> CallbackPath(p)]

RedirectUri(pt, p) == [host |-> "localhost", port |-> pt, path |-> CallbackPath(p)]

\* Request paths and query strings sent to the listener.
Paths == {"/github/callback", "/gitlab/callback", "/favicon.ico"}
Codes == {"c1"}
Queries == {[code |-> "c1", error |-> FALSE],
            [code |-> None, error |-> TRUE],
            [code |-> None, error |-> FALSE]}
NoRequest == [id |-> 0, path |-> None, query |-> [code |-> None, error |-> FALSE]]

\* A signal of OAuthHandler; req is the request whose handling emitted it
\* (0 when the UI thread did).
Signal(kind, p, arg, req) == [sig |-> kind, provider |-> p, arg |-> arg, req |-> req]

OAuthInit ==
    /\ server = None
    /\ server_thread = None
    /\ port = AvailablePorts[1]
    /\ github_redirect_uri = RedirectUri(AvailablePorts[1], "github")
    /\ gitlab_redirect_uri = RedirectUri(AvailablePorts[1], "gitlab")
    /\ client_id = [p \in Providers |-> FALSE]
    /\ shutdown_request = FALSE
    /\ is_shut_down = FALSE
    /\ opc = [ui |-> "idle", srv |-> "none"]
    /\ backlog = <<>>
    /\ cur = NoRequest
    /\ reply = 0
    /\ responses = <<>>
    /\ signals = <<>>
    /\ opened = <<>>
    /\ pending = {}
    /\ nreq = 0
    /\ nflow = 0
    /\ bound = NoPort
    /\ dialog = "open"
    /\ nstop = 0

\* AccountDialog.saveGithubOAuthConfig / saveGitlabOAuthConfig store the client id.
SaveOAuthConfig(p) ==
    /\ dialog = "open"
    /\ opc.ui = "idle"
    /\ ~client_id[p]
    /\ client_id' = [client_id EXCEPT ![p] = TRUE]
    /\ UNCHANGED <<server, server_thread, port, github_redirect_uri,
                   gitlab_redirect_uri, shutdown_request, is_shut_down, opc, backlog,
                   cur, reply, responses, signals, opened, pending, nreq, nflow>>
    /\ UNCHANGED <<bound, dialog, nstop>>
    /\ UNCHANGED nonOAuthVars

\* start_github_auth / start_gitlab_auth (lines 358-430) with start_server
\* (lines 261-344) inlined, all on the UI thread. busy and ephemeral decide
\* find_available_port, bindOk whether HTTPServer(...) can bind, browserOk
\* whether webbrowser.open returns.
StartAuth(p, busy, ephemeral, bindOk, browserOk) ==
    LET found == find_available_port(busy, ephemeral)
        mustStart == server = None
        started == mustStart /\ found # NoPort /\ bindOk
        serverOk == ~mustStart \/ started
        newPort == IF mustStart THEN found ELSE port
        moved == mustStart /\ found # NoPort
        uri == IF moved THEN RedirectUri(found, p)
               ELSE IF p = "github" THEN github_redirect_uri ELSE gitlab_redirect_uri
    IN
    /\ dialog = "open"
    /\ opc.ui = "idle"
    /\ nflow < MaxFlows
    /\ nflow' = nflow + 1
    /\ IF ~client_id[p]
          THEN /\ signals' = Append(signals, Signal("failed", p, "no_client_id", 0))
               /\ pending' = pending \ {p}
               /\ UNCHANGED <<server, server_thread, port, github_redirect_uri,
                              gitlab_redirect_uri, shutdown_request, is_shut_down,
                              opc, backlog, opened, bound>>
          ELSE /\ port' = newPort
               /\ github_redirect_uri' =
                     IF moved THEN RedirectUri(found, "github") ELSE github_redirect_uri
               /\ gitlab_redirect_uri' =
                     IF moved THEN RedirectUri(found, "gitlab") ELSE gitlab_redirect_uri
               /\ IF started
                     THEN /\ server' = "HTTPServer"
                          /\ server_thread' = "Thread"
                          /\ shutdown_request' = FALSE
                          /\ is_shut_down' = FALSE
                          /\ backlog' = <<>>
                          /\ bound' = found
                          /\ opc' = [opc EXCEPT !.srv = "select"]
                     ELSE UNCHANGED <<server, server_thread, shutdown_request,
                                      is_shut_down, backlog, opc, bound>>
               /\ IF ~serverOk
                     THEN /\ signals' =
                                Append(signals, Signal("failed", p, "no_server", 0))
                          /\ pending' = pending \ {p}
                          /\ opened' = opened
                     ELSE IF browserOk
                             THEN /\ opened' = Append(opened,
                                        [provider |-> p, redirect_uri |-> uri,
                                         at |-> Len(signals)])
                                  /\ pending' = pending \cup {p}
                                  /\ signals' = signals
                             ELSE /\ signals' = Append(signals,
                                        Signal("failed", p, "no_browser", 0))
                                  /\ pending' = pending \ {p}
                                  /\ opened' = opened
    /\ UNCHANGED <<client_id, cur, reply, responses, nreq, dialog, nstop>>
    /\ UNCHANGED nonOAuthVars

\* The user closes the AccountDialog. The class overrides neither closeEvent
\* nor reject/done (account_dialog.py:17-34), so QDialog only hides the window:
\* the handler, its server and its thread are left as they are.
CloseDialog ==
    /\ dialog = "open"
    /\ opc.ui = "idle"
    /\ dialog' = "closed"
    /\ UNCHANGED <<server, server_thread, port, github_redirect_uri,
                   gitlab_redirect_uri, client_id, shutdown_request, is_shut_down,
                   opc, backlog, cur, reply, responses, signals, opened, pending,
                   nreq, nflow, bound, nstop>>
    /\ UNCHANGED nonOAuthVars

\* A client (the browser the provider redirected, or anything else on the
\* machine) connects to the listening socket and sends GET path?query.
Request(path, query) ==
    /\ server # None
    /\ nreq < MaxRequests
    /\ nreq' = nreq + 1
    /\ backlog' = Append(backlog, [id |-> nreq + 1, path |-> path, query |-> query])
    /\ UNCHANGED <<server, server_thread, port, github_redirect_uri,
                   gitlab_redirect_uri, client_id, shutdown_request, is_shut_down,
                   opc, cur, reply, responses, signals, opened, pending, nflow>>
    /\ UNCHANGED <<bound, dialog, nstop>>
    /\ UNCHANGED nonOAuthVars

\* BaseServer.serve_forever: the loop takes the next connection ...
ServeAccept ==
    /\ opc.srv = "select"
    /\ ~shutdown_request
    /\ backlog # <<>>
    /\ cur' = Head(backlog)
    /\ backlog' = Tail(backlog)
    /\ opc' = [opc EXCEPT !.srv = "do_GET"]
    /\ UNCHANGED <<server, server_thread, port, github_redirect_uri,
                   gitlab_redirect_uri, client_id, shutdown_request, is_shut_down,
                   reply, responses, signals, opened, pending, nreq, nflow>>
    /\ UNCHANGED <<bound, dialog, nstop>>
    /\ UNCHANGED nonOAuthVars

\* ... or sees the shutdown request, leaves and sets the event.
ServeExit ==
    /\ opc.srv = "select"
    /\ shutdown_request
    /\ shutdown_request' = FALSE
    /\ is_shut_down' = TRUE
    /\ opc' = [opc EXCEPT !.srv = "exited"]
    /\ UNCHANGED <<server, server_thread, port, github_redirect_uri,
                   gitlab_redirect_uri, client_id, backlog, cur, reply, responses,
                   signals, opened, pending, nreq, nflow>>
    /\ UNCHANGED <<bound, dialog, nstop>>
    /\ UNCHANGED nonOAuthVars

\* The mutant of ProviderOf: every path but GitLab's is taken for GitHub's.
ProviderOfNoElse(path) == IF path = "/gitlab/callback" THEN "gitlab" ELSE "github"

\* Lines 57 and 106: the provider a path is the callback of, None for other paths.
ProviderOf(path) ==
    IF path = "/github/callback" THEN "github"
    ELSE IF path = "/gitlab/callback" THEN "gitlab"
    ELSE None

\* do_GET up to its first call (lines 52-61, 82-85, 106-110, 131-134, 154-156):
\* a code goes to the provider's callback before anything is sent; a callback
\* without code is answered 400, any other path 404.
DoGet ==
    /\ opc.srv = "do_GET"
    /\ IF ProviderOf(cur.path) = None
          THEN reply' = 404 /\ opc' = [opc EXCEPT !.srv = "respond"]
          ELSE IF cur.query.code # None
                  THEN reply' = reply /\ opc' = [opc EXCEPT !.srv = "handle_code"]
                  ELSE reply' = 400 /\ opc' = [opc EXCEPT !.srv = "respond"]
    /\ UNCHANGED <<server, server_thread, port, github_redirect_uri,
                   gitlab_redirect_uri, client_id, shutdown_request, is_shut_down,
                   backlog, cur, responses, signals, opened, pending, nreq, nflow>>
    /\ UNCHANGED <<bound, dialog, nstop>>
    /\ UNCHANGED nonOAuthVars

\* _handle_github_code / _handle_gitlab_code up to the emit (lines 432-444,
\* 455-467); the call of stop_server follows.
HandleCode ==
    /\ opc.srv = "handle_code"
    /\ signals' = Append(signals,
          Signal("success", ProviderOf(cur.path), cur.query.code, cur.id))
    /\ pending' = pending \ {ProviderOf(cur.path)}
    /\ opc' = [opc EXCEPT !.srv = "stop_server"]
    /\ UNCHANGED <<server, server_thread, port, github_redirect_uri,
                   gitlab_redirect_uri, client_id, shutdown_request, is_shut_down,
                   backlog, cur, reply, responses, opened, nreq, nflow>>
    /\ UNCHANGED <<bound, dialog, nstop>>
    /\ UNCHANGED nonOAuthVars

\* Where thread t is when it calls stop_server, and where it goes on from.
AtStopServer(t) == IF t = "ui" THEN opc.ui = "idle" ELSE opc.srv = "stop_server"

AfterStopServer(t) == IF t = "ui" THEN "idle" ELSE "respond"

\* The mutant of HasServer: stop_server calls shutdown() whatever self.server is.
HasServerUnchecked == TRUE

\* if self.server: (line 348).
HasServer == server # None

\* stop_server, lines 348-351: with a server, shutdown() sets the request flag
\* and waits for the event; without one nothing is done.
StopServerBegin(t) ==
    /\ AtStopServer(t)
    /\ IF t = "ui"
          THEN nstop < MaxStops /\ nstop' = nstop + 1
          ELSE nstop' = nstop
    /\ IF HasServer
          THEN /\ shutdown_request' = TRUE
               /\ opc' = [opc EXCEPT ![t] = "shutdown_wait"]
               /\ reply' = reply
          ELSE /\ shutdown_request' = shutdown_request
               /\ opc' = [opc EXCEPT ![t] = AfterStopServer(t)]
               /\ reply' = IF t = "srv" THEN 200 ELSE reply
    /\ UNCHANGED <<server, server_thread, port, github_redirect_uri,
                   gitlab_redirect_uri, client_id, is_shut_down, backlog, cur,
                   responses, signals, opened, pending, nreq, nflow, bound, dialog>>
    /\ UNCHANGED nonOAuthVars

\* shutdown() returns once the event is set; lines 352-353 clear the fields.
\* In the handler the 200 page is sent after the callback has returned.
ShutdownReturn(t) ==
    /\ opc[t] = "shutdown_wait"
    /\ is_shut_down
    /\ server' = None
    /\ server_thread' = None
    /\ opc' = [opc EXCEPT ![t] = AfterStopServer(t)]
    /\ reply' = IF t = "srv" THEN 200 ELSE reply
    /\ UNCHANGED <<port, github_redirect_uri, gitlab_redirect_uri, client_id,
                   shutdown_request, is_shut_down, backlog, cur, responses, signals,
                   opened, pending, nreq, nflow>>
    /\ UNCHANGED <<bound, dialog, nstop>>
    /\ UNCHANGED nonOAuthVars

\* _send_response (lines 37-48), after which the handler returns to the loop.
SendResponse ==
    /\ opc.srv = "respond"
    /\ responses' = Append(responses, [req |-> cur, status |-> reply])
    /\ cur' = NoRequest
    /\ reply' = 0
    /\ opc' = [opc EXCEPT !.srv = "select"]
    /\ UNCHANGED <<server, server_thread, port, github_redirect_uri,
                   gitlab_redirect_uri, client_id, shutdown_request, is_shut_down,
                   backlog, signals, opened, pending, nreq, nflow>>
    /\ UNCHANGED <<bound, dialog, nstop>>
    /\ UNCHANGED nonOAuthVars

\* The steps of the serving thread.
ServerThreadNext ==
    \/ ServeAccept
    \/ ServeExit
    \/ DoGet
    \/ HandleCode
    \/ StopServerBegin("srv")
    \/ ShutdownReturn("srv")
    \/ SendResponse

OAuthNext ==
    \/ \E p \in Providers : SaveOAuthConfig(p)
    \/ \E p \in Providers, busy \in BusySets, ephemeral \in EphemeralPorts,
          bindOk \in BOOLEAN, browserOk \in BOOLEAN :
             StartAuth(p, busy, ephemeral, bindOk, browserOk)
    \/ CloseDialog
    \/ \E path \in Paths, query \in Queries : Request(path, query)
    \/ ServeAccept
    \/ ServeExit
    \/ DoGet
    \/ HandleCode
    \/ \E t \in {"ui", "srv"} : StopServerBegin(t)
    \/ \E t \in {"ui", "srv"} : ShutdownReturn(t)
    \/ SendResponse

\* The listener of a dialog in which the user and the browser together make a
\* few moves: flows started, requests sent and stop_server calls of the dialog.
MaxListenerEvents == 3

ListenerEvents == nflow + nreq + nstop

ListenerNext ==
    \/ \E p \in Providers : SaveOAuthConfig(p)
    \/ /\ ListenerEvents < MaxListenerEvents
       /\ \E p \in Providers, busy \in BusySets, ephemeral \in EphemeralPorts,
             bindOk \in BOOLEAN, browserOk \in BOOLEAN :
                StartAuth(p, busy, ephemeral, bindOk, browserOk)
    \/ CloseDialog
    \/ /\ ListenerEvents < MaxListenerEvents
       /\ \E path \in Paths, query \in Queries : Request(path, query)
    \/ ServeAccept
    \/ ServeExit
    \/ DoGet
    \/ HandleCode
    \/ /\ ListenerEvents < MaxListenerEvents
       /\ StopServerBegin("ui")
    \/ StopServerBegin("srv")
    \/ \E t \in {"ui", "srv"} : ShutdownReturn(t)
    \/ SendResponse

----------------------------------------------------------------------------
\* start_server (oauth_handler.py:261-344) one bind at a time, with the other
\* processes of the machine binding and releasing ports in between.

\* The number of start_server calls.
MaxStarts == 2

\* The port the system assigns for bind((host, 0)).
EphemeralPort == 49152

\* The ports other processes can hold.
MachinePorts == {AvailablePorts[i] : i \in DOMAIN AvailablePorts} \cup {EphemeralPort}

PortInit ==
    /\ taken = {}
    /\ ppc = "idle"
    /\ pidx = 0
    /\ probes = <<>>
    /\ selected = AvailablePorts[1]
    /\ lport = NoPort
    /\ nstart = 0

\* Another process binds a port nobody holds ...
OtherBind(q) ==
    /\ q \notin taken
    /\ q # lport
    /\ taken' = taken \cup {q}
    /\ UNCHANGED <<ppc, pidx, probes, selected, lport, nstart>>
    /\ UNCHANGED nonPortVars

\* ... or closes one it holds.
OtherRelease(q) ==
    /\ q \in taken
    /\ taken' = taken \ {q}
    /\ UNCHANGED <<ppc, pidx, probes, selected, lport, nstart>>
    /\ UNCHANGED nonPortVars

\* start_server is called with self.server unset (lines 263-268) and enters
\* find_available_port.
StartServer ==
    /\ ppc \in {"idle", "failed"}
    /\ nstart < MaxStarts
    /\ nstart' = nstart + 1
    /\ ppc' = "probe"
    /\ pidx' = 1
    /\ probes' = <<>>
    /\ UNCHANGED <<taken, selected, lport>>
    /\ UNCHANGED nonPortVars

\* One turn of the loop of lines 231-240: bind a test socket to the candidate and
\* close it again; the first candidate that binds is returned and stored in
\* self.port (line 269).
FindProbe ==
    LET cand == AvailablePorts[pidx]
        free == cand \notin taken
    IN
    /\ ppc = "probe"
    /\ probes' = Append(probes, [port |-> cand, free |-> free])
    /\ IF free
          THEN selected' = cand /\ ppc' = "create" /\ pidx' = pidx
          ELSE /\ selected' = selected
               /\ IF pidx < Len(AvailablePorts)
                     THEN pidx' = pidx + 1 /\ ppc' = "probe"
                     ELSE pidx' = pidx /\ ppc' = "ephemeral"
    /\ UNCHANGED <<taken, lport, nstart>>
    /\ UNCHANGED nonPortVars

\* Lines 243-252: bind((host, 0)); the system hands out its port if it has one,
\* else the function returns None and start_server returns False (lines 270-279).
FindEphemeral ==
    LET free == EphemeralPort \notin taken
    IN
    /\ ppc = "ephemeral"
    /\ probes' = Append(probes, [port |-> EphemeralPort, free |-> free])
    /\ IF free
          THEN selected' = EphemeralPort /\ ppc' = "create"
          ELSE selected' = NoPort /\ ppc' = "failed"
    /\ UNCHANGED <<taken, pidx, lport, nstart>>
    /\ UNCHANGED nonPortVars

\* Lines 286-289: HTTPServer((self.host, self.port), ...) binds and listens, and
\* lines 305-317 start the thread and return True; if the port cannot be bound
\* the except branch of line 290 is entered.
CreateServer ==
    /\ ppc = "create"
    /\ IF selected \notin taken
          THEN lport' = selected /\ ppc' = "listening"
          ELSE lport' = lport /\ ppc' = "create_alt"
    /\ UNCHANGED <<taken, pidx, probes, selected, nstart>>
    /\ UNCHANGED nonPortVars

\* Lines 293-303: the second attempt binds 0.0.0.0 on the same port. Whether
\* that succeeds beside another process's socket on the port depends on the
\* platform; if it fails the exception is re-raised and lines 319-344 return
\* False.
CreateServerAlt(altOk) ==
    /\ ppc = "create_alt"
    /\ IF selected \notin taken \/ altOk
          THEN lport' = selected /\ ppc' = "listening"
          ELSE lport' = lport /\ ppc' = "failed"
    /\ UNCHANGED <<taken, pidx, probes, selected, nstart>>
    /\ UNCHANGED nonPortVars

PortNext ==
    \/ \E q \in MachinePorts : OtherBind(q)
    \/ \E q \in MachinePorts : OtherRelease(q)
    \/ StartServer
    \/ FindProbe
    \/ FindEphemeral
    \/ CreateServer
    \/ \E altOk \in BOOLEAN : CreateServerAlt(altOk)

----------------------------------------------------------------------------
\* The classification of git failures (git_manager.py:186-199, 234-252,
\* 687-703, 753-766). A failure text is a sequence of phrases, each in lower
\* case or not; the rules look for phrases in the lowered text.

\* The longest failure text, in phrases.
MaxPhrases == 2

Phrases == {"could not resolve host", "authentication failed", "not authorized",
            "not a git repository", "repository not found", "no such remote",
            "refused", "remote contains work that you do", "reject",
            "already exists", "destination path", "couldn't find remote ref",
            "remote", "unexpected disconnect"}

Tokens == [w : Phrases, up : BOOLEAN]

Texts == UNION {[1..n -> Tokens] : n \in 0..MaxPhrases}

ClassifiedOps == {"pull", "push", "clone", "import"}

\* str.lower().
Lower(text) == [i \in DOMAIN text |-> [w |-> text[i].w, up |-> FALSE]]

\* phrase in error_msg.
Has(msg, phrase) == \E i \in DOMAIN msg : msg[i] = [w |-> phrase, up |-> FALSE]

\* raise Exception("<the message of a kind>"): the fixed messages carry no
\* part of the failure text.
Classified(kind) == [kind |-> kind, raw |-> <<>>]

\* The mutant of RawText: the message is built from error_msg, the lowered text.
RawTextLowered(text) == Lower(text)

\* {str(e)} in the last branch of each rule list (lines 197, 250, 701, 764).
RawText(text) == text

\* raise Exception(f"<operation>失败: {str(e)}").
Unclassified(text) == [kind |-> "unclassified", raw |-> RawText(text)]

\* pull, lines 186-197.
ClassifyPull(text) ==
    LET error_msg == Lower(text)
    IN  IF Has(error_msg, "could not resolve host") THEN Classified("host_unreachable")
        ELSE IF Has(error_msg, "authentication failed")
                THEN Classified("authentication_failed")
        ELSE IF Has(error_msg, "not a git repository")
                THEN Classified("not_a_repository")
        ELSE IF Has(error_msg, "no such remote") THEN Classified("remote_not_found")
        ELSE Unclassified(text)

\* push, lines 234-250.
ClassifyPush(text) ==
    LET error_msg == Lower(text)
    IN  IF Has(error_msg, "could not resolve host") THEN Classified("host_unreachable")
        ELSE IF Has(error_msg, "authentication failed")
                   \/ Has(error_msg, "not authorized")
                THEN Classified("authentication_failed")
        ELSE IF Has(error_msg, "not a git repository")
                   \/ Has(error_msg, "repository not found")
                THEN Classified("not_a_repository")
        ELSE IF Has(error_msg, "no such remote") THEN Classified("remote_not_found")
        ELSE IF Has(error_msg, "refused") THEN Classified("push_refused")
        ELSE IF Has(error_msg, "remote contains work that you do")
                   \/ Has(error_msg, "reject")
                THEN Classified("push_rejected_needs_pull")
        ELSE Unclassified(text)

\* cloneRepository, lines 687-701.
ClassifyClone(text, branch) ==
    LET error_msg == Lower(text)
    IN  IF Has(error_msg, "could not resolve host") THEN Classified("host_unreachable")
        ELSE IF Has(error_msg, "authentication failed")
                THEN Classified("authentication_failed")
        ELSE IF Has(error_msg, "not a git repository")
                THEN Classified("not_a_repository")
        ELSE IF Has(error_msg, "already exists") /\ Has(error_msg, "destination path")
                THEN Classified("destination_not_empty")
        ELSE IF Has(error_msg, "couldn't find remote ref") /\ branch
                THEN Classified("branch_not_found")
        ELSE Unclassified(text)

\* importExternalRepo, lines 753-764.
ClassifyImport(text) ==
    IF Has(Lower(text), "could not resolve host") THEN Classified("host_unreachable")
    ELSE IF Has(Lower(text), "authentication failed")
            THEN Classified("authentication_failed")
    ELSE IF Has(Lower(text), "not a git repository") THEN Classified("not_a_repository")
    ELSE IF Has(Lower(text), "already exists") /\ Has(Lower(text), "remote")
            THEN Classified("remote_already_exists")
    ELSE Unclassified(text)

\* The except git.exc.GitCommandError branch of operation op.
Classify(op, text, branch) ==
    IF op = "pull" THEN ClassifyPull(text)
    ELSE IF op = "push" THEN ClassifyPush(text)
    ELSE IF op = "clone" THEN ClassifyClone(text, branch)
    ELSE ClassifyImport(text)

\* No exception raised yet.
NoResult == [kind |-> "none", raw |-> <<>>]

\* No git command has failed.
ClassifyIdle ==
    /\ cop = "pull"
    /\ ctext = <<>>
    /\ cbranch = FALSE
    /\ cresult = NoResult

\* An operation is inside its try block with a git command about to fail.
ClassifyInit ==
    /\ cop \in ClassifiedOps
    /\ ctext \in Texts
    /\ cbranch \in BOOLEAN
    /\ cresult = NoResult

\* The git command of operation cop fails with text ctext and the except
\* branch raises the classified exception.
ClassifyFailure ==
    /\ cresult = NoResult
    /\ cresult' = Classify(cop, ctext, cbranch)
    /\ UNCHANGED <<cop, ctext, cbranch>>
    /\ UNCHANGED nonClassifyVars

ClassifyNext == ClassifyFailure

----------------------------------------------------------------------------
\* One GitManager (git_manager.py) and the directory it is bound to.

\* The number of operations called on the manager.
MaxOps == 4

RemoteNames == {"origin", "backup"}

BranchNames == {"main", "dev"}

\* Strings are sequences of pieces; each piece is a run of characters that
\* the tests of sanitize_url take or leave as a whole.

\* s.startswith(p), s.endswith(p), p in s.
StartsWith(s, p) == Len(s) >= Len(p) /\ SubSeq(s, 1, Len(p)) = p

EndsWith(s, p) == Len(s) >= Len(p) /\ SubSeq(s, Len(s) - Len(p) + 1, Len(s)) = p

At(s, p, i) == i + Len(p) - 1 <= Len(s) /\ SubSeq(s, i, i + Len(p) - 1) = p

Contains(s, p) == \E i \in 1..Len(s) : At(s, p, i)

\* The first place where p occurs in s.
Find(s, p) == CHOOSE i \in 1..Len(s) : At(s, p, i) /\ \A j \in 1..(i - 1) : ~At(s, p, j)

\* s.replace(a, b): the occurrences from the left that do not overlap.
RECURSIVE Replace(_, _, _)
Replace(s, a, b) ==
    IF ~Contains(s, a) THEN s
    ELSE LET i == Find(s, a)
         IN  SubSeq(s, 1, i - 1) \o b
                \o Replace(SubSeq(s, i + Len(a), Len(s)), a, b)

\* s.split(sep).
RECURSIVE Split(_, _)
Split(s, sep) ==
    IF ~Contains(s, sep) THEN <<s>>
    ELSE LET i == Find(s, sep)
         IN  <<SubSeq(s, 1, i - 1)>> \o Split(SubSeq(s, i + Len(sep), Len(s)), sep)

\* sep.join(parts).
RECURSIVE Join(_, _)
Join(parts, sep) ==
    IF parts = <<>> THEN <<>>
    ELSE IF Len(parts) = 1 THEN parts[1]
    ELSE parts[1] \o sep \o Join(Tail(parts), sep)

\* s.count(c) for a one-character c.
Count(s, c) == Cardinality({i \in 1..Len(s) : s[i] = c})

\* s.strip().
RECURSIVE Strip(_)
Strip(s) ==
    IF s = <<>> THEN s
    ELSE IF s[1] = " " THEN Strip(Tail(s))
    ELSE IF s[Len(s)] = " " THEN Strip(SubSeq(s, 1, Len(s) - 1))
    ELSE s

Github == <<"github.com">>

HttpsGithub == <<"http", "s", ":", "/", "/", "github.com", "/">>

\* Lines 609-611: owner/repo becomes a GitHub URL.
Shorthand(url) ==
    IF ~StartsWith(url, <<"http">>) /\ ~StartsWith(url, <<"git@">>)
          /\ Contains(url, <<"/">>) /\ Count(url, "/") = 1
       THEN HttpsGithub \o url \o <<".git">>
       ELSE url

\* Lines 614-615.
FixedAccount(url) ==
    Replace(url, <<"github.com", ":", "HeDass-OF">>, <<"github.com", "/", "HeDass-OF">>)

\* Lines 620-622: the three replacements, one after the other.
ColonSlashes(url) ==
    LET r1 == Replace(url, <<"github.com", ":", "/">>, <<"github.com", "/">>)
        r2 == Replace(r1, <<"github.com", ":", "/", "/">>, <<"github.com", "/">>)
    IN  Replace(r2, <<"github.com", ":", "/", "/", "/">>, <<"github.com", "/">>)

\* Lines 625-626.
LeadingColon(url) ==
    IF Contains(url, <<":", "github.com">>)
          /\ ~Contains(url, <<"git@", ":", "github.com">>)
       THEN Replace(url, <<":", "github.com">>, Github)
       ELSE url

\* Lines 629-635: only the first two parts of the split are used.
ScpForm(url) ==
    IF ~StartsWith(url, <<"git@">>) /\ Contains(url, <<"github.com", ":">>)
       THEN LET parts == Split(url, <<"github.com", ":">>)
            IN  IF StartsWith(url, <<"http">>)
                   THEN parts[1] \o <<"github.com", "/">> \o parts[2]
                   ELSE HttpsGithub \o parts[2]
       ELSE url

\* Lines 618-635.
GithubForm(url) ==
    IF Contains(url, Github) THEN ScpForm(LeadingColon(ColonSlashes(url))) ELSE url

\* Lines 638-647.
ColonAsPath(url) ==
    IF Contains(url, <<":">>) /\ ~StartsWith(url, <<"git@">>)
       THEN LET parts == Split(url, <<":">>)
                domain_parts == Split(parts[1], <<"/", "/">>)
            IN  IF Len(parts) > 1 /\ ~EndsWith(parts[1], <<"/", "/">>)
                      /\ Len(domain_parts) > 1
                   THEN domain_parts[1] \o <<"/", "/">> \o domain_parts[2] \o <<"/">>
                           \o Join(Tail(parts), <<"/">>)
                   ELSE url
       ELSE url

\* Line 650: the full-width brackets U+FF08 and U+FF09 become ( and ).
Brackets(url) ==
    Replace(Replace(url, <<"fullwidth-(">>, <<"(">>), <<"fullwidth-)">>, <<")">>)

\* The mutant of GitSuffix: nothing is appended.
GitSuffixOmitted(url) == url

\* Lines 653-655.
GitSuffix(url) ==
    IF Contains(url, Github) /\ ~EndsWith(url, <<".git">>)
          /\ ~Contains(url, <<"github.com", "/", "/">>)
          /\ ~\E i \in DOMAIN url : url[i] \in {"?", "&", "#"}
       THEN url \o <<".git">>
       ELSE url

\* sanitize_url, lines 598-657.
sanitize_url(url) ==
    GitSuffix(Brackets(ColonAsPath(GithubForm(FixedAccount(Shorthand(Strip(url)))))))

\* URLs as the user types them.
Urls == {<<"user", "/", "repo">>,
         <<"http", "s", ":", "/", "/", "example.com", "/", "x", ".git">>,
         <<" ", "http", "s", ":", "/", "/", "example.com", "/", "x", ".git", " ">>}

\* A phrase of a message or of git's output, in lower case.
Tok(w) == [w |-> w, up |-> FALSE]

\* What git prints when the directory holds no repository.
NotARepoText == <<Tok("not a git repository")>>

\* The ways a git command can end in a repository: <<>> is success.
ToolOutcomes == {<<>>, <<Tok("could not resolve host")>>, <<Tok("unexpected disconnect")>>}

\* self.repo.git.<command>(...): without the metadata the command fails.
GitRun(outcome) == IF metadata THEN outcome ELSE NotARepoText

\* How a call ends.
Returned == [outcome |-> "returned", cls |-> None, kind |-> "none", raw |-> <<>>]

\* A GitCommandError that leaves the method as git raised it.
RaisedRaw(text) ==
    [outcome |-> "raised", cls |-> "GitCommandError", kind |-> "raw", raw |-> text]

\* raise Exception(<message>) with a classified or unclassified message.
Raised(c) == [outcome |-> "raised", cls |-> "Exception", kind |-> c.kind, raw |-> c.raw]

\* except Exception as e: raise Exception(f"<operation>失败: {str(e)}").
Wrapped(text) == Raised(Unclassified(text))

Names(rs) == {rs[i].name : i \in DOMAIN rs}

\* if not self.isValidRepo(): lines 57-64 reconnect only when self.repo is None.
isValidRepo == repo # None

RepoInit ==
    /\ metadata = FALSE
    /\ repo = None
    /\ remotes = <<>>
    /\ head = "main"
    /\ last = [op |-> "none", arg |-> None, valid |-> FALSE, res |-> Returned]
    /\ syncpc = "idle"
    /\ syncarg = [remote |-> None, given |-> None, branch |-> None, valid |-> FALSE]
    /\ synclog = <<>>
    /\ nop = 0

\* The end of an operation: it is recorded with what the directory held when
\* it was called.
Ends(op, arg, res) ==
    /\ nop < MaxOps
    /\ nop' = nop + 1
    /\ last' = [op |-> op, arg |-> arg, valid |-> metadata, res |-> res]

\* initRepository (lines 24-55) or git itself creates the repository.
MakeRepository ==
    /\ ~metadata
    /\ metadata' = TRUE
    /\ remotes' = <<>>
    /\ head' = "main"
    /\ UNCHANGED <<repo, last, syncpc, syncarg, synclog, nop>>
    /\ UNCHANGED nonRepoVars

\* The .git directory is deleted or moved away, its configuration with it.
RemoveMetadata ==
    /\ metadata
    /\ metadata' = FALSE
    /\ remotes' = <<>>
    /\ UNCHANGED <<repo, head, last, syncpc, syncarg, synclog, nop>>
    /\ UNCHANGED nonRepoVars

\* GitManager(path): __init__ and connect (lines 11-22).
OpenRepo ==
    /\ repo = None
    /\ IF metadata
          THEN repo' = "Repo" /\ Ends("open", None, Returned)
          ELSE /\ repo' = repo
               /\ Ends("open", None,
                     [outcome |-> "raised", cls |-> "ValueError",
                      kind |-> "not_a_repository", raw |-> <<>>])
    /\ UNCHANGED <<metadata, remotes, head, syncpc, syncarg, synclog>>
    /\ UNCHANGED nonRepoVars

\* stage, unstage, commit (lines 123-164): the git command's error is not caught.
Uncaught(op, outcome) ==
    /\ repo # None
    /\ IF ~isValidRepo
          THEN Ends(op, None, Returned)
          ELSE Ends(op, None, IF GitRun(outcome) = <<>> THEN Returned
                              ELSE RaisedRaw(GitRun(outcome)))
    /\ UNCHANGED <<metadata, repo, remotes, head, syncpc, syncarg, synclog>>
    /\ UNCHANGED nonRepoVars

\* createBranch, stashChanges (lines 431-448, 545-559): any error is wrapped.
Caught(op, outcome) ==
    /\ repo # None
    /\ IF ~isValidRepo
          THEN Ends(op, None, Returned)
          ELSE Ends(op, None, IF GitRun(outcome) = <<>> THEN Returned
                              ELSE Wrapped(GitRun(outcome)))
    /\ UNCHANGED <<metadata, repo, remotes, head, syncpc, syncarg, synclog>>
    /\ UNCHANGED nonRepoVars

\* checkoutBranch (lines 288-293).
CheckoutBranch(b, outcome) ==
    /\ repo # None
    /\ Ends("checkout", b, IF GitRun(outcome) = <<>> THEN Returned
                           ELSE RaisedRaw(GitRun(outcome)))
    /\ head' = IF GitRun(outcome) = <<>> THEN b ELSE head
    /\ UNCHANGED <<metadata, repo, remotes, syncpc, syncarg, synclog>>
    /\ UNCHANGED nonRepoVars

\* fetch (lines 418-429): self.repo.remotes[remote_name] raises for an unknown
\* name; that and any failure of the fetch is wrapped.
Fetch(name, outcome) ==
    /\ repo # None
    /\ Ends("fetch", name,
            IF name \notin Names(remotes) THEN Wrapped(<<Tok("no item found")>>)
            ELSE IF GitRun(outcome) = <<>> THEN Returned
            ELSE Wrapped(GitRun(outcome)))
    /\ UNCHANGED <<metadata, repo, remotes, head, syncpc, syncarg, synclog>>
    /\ UNCHANGED nonRepoVars

\* The body of pull (lines 175-199) for a bound manager: an unknown remote
\* raises inside the try and is wrapped by the last except; a failure of
\* git pull is classified.
PullResult(name, outcome) ==
    IF name \notin Names(remotes) THEN Wrapped(<<Tok("no remote named")>>)
    ELSE IF GitRun(outcome) = <<>> THEN Returned
    ELSE Raised(ClassifyPull(GitRun(outcome)))

\* The body of push (lines 211-252), likewise.
PushResult(name, outcome) ==
    IF name \notin Names(remotes) THEN Wrapped(<<Tok("no remote named")>>)
    ELSE IF GitRun(outcome) = <<>> THEN Returned
    ELSE Raised(ClassifyPush(GitRun(outcome)))

\* pull (lines 166-199).
Pull(name, outcome) ==
    /\ repo # None
    /\ Ends("pull", name, IF ~isValidRepo THEN Returned ELSE PullResult(name, outcome))
    /\ UNCHANGED <<metadata, repo, remotes, head, syncpc, syncarg, synclog>>
    /\ UNCHANGED nonRepoVars

\* push (lines 201-252).
Push(name, outcome) ==
    /\ repo # None
    /\ Ends("push", name, IF ~isValidRepo THEN Returned ELSE PushResult(name, outcome))
    /\ UNCHANGED <<metadata, repo, remotes, head, syncpc, syncarg, synclog>>
    /\ UNCHANGED nonRepoVars

\* git remote set-url.
SetUrl(rs, name, url) ==
    [i \in DOMAIN rs |->
        IF rs[i].name = name THEN [name |-> name, url |-> url] ELSE rs[i]]

\* self.repo.create_remote(name, url), that is git remote add: the text it
\* fails with, <<>> if the remote was added.
CreateRemoteError(name) ==
    IF ~metadata THEN NotARepoText
    ELSE IF name \in Names(remotes) THEN <<Tok("remote"), Tok("already exists")>>
    ELSE <<>>

\* The mutant of ExistingNameAction: addRemote updates the URL of the remote.
ExistingNameSetsUrl == "set_url"

\* addRemote, lines 377-379: a remote of that name makes it raise.
ExistingNameAction == "reject"

\* addRemote (lines 363-384).
AddRemote(name, url) ==
    LET clean == sanitize_url(url)
    IN
    /\ repo # None
    /\ IF ~isValidRepo
          THEN Ends("addRemote", name, Returned) /\ remotes' = remotes
          ELSE IF name \in Names(remotes)
                  THEN IF ExistingNameAction = "reject"
                          THEN /\ Ends("addRemote", name,
                                       Wrapped(<<Tok("remote of that name exists")>>))
                               /\ remotes' = remotes
                          ELSE /\ Ends("addRemote", name, Returned)
                               /\ remotes' = SetUrl(remotes, name, clean)
                  ELSE IF CreateRemoteError(name) = <<>>
                          THEN /\ Ends("addRemote", name, Returned)
                               /\ remotes' = Append(remotes,
                                                    [name |-> name, url |-> clean])
                          ELSE /\ Ends("addRemote", name,
                                       Wrapped(CreateRemoteError(name)))
                               /\ remotes' = remotes
    /\ UNCHANGED <<metadata, repo, head, syncpc, syncarg, synclog>>
    /\ UNCHANGED nonRepoVars

\* removeRemote (lines 386-398): git remote rm fails for an unknown name.
RemoveRemote(name) ==
    /\ repo # None
    /\ IF ~isValidRepo
          THEN Ends("removeRemote", name, Returned) /\ remotes' = remotes
          ELSE IF name \in Names(remotes)
                  THEN /\ Ends("removeRemote", name, Returned)
                       /\ remotes' = SelectSeq(remotes, LAMBDA r : r.name # name)
                  ELSE /\ Ends("removeRemote", name,
                               Wrapped(IF metadata THEN <<Tok("no such remote")>>
                                       ELSE NotARepoText))
                       /\ remotes' = remotes
    /\ UNCHANGED <<metadata, repo, head, syncpc, syncarg, synclog>>
    /\ UNCHANGED nonRepoVars

\* importExternalRepo (lines 725-766): as a remote, the URL of an existing
\* name is replaced and a new name is created; otherwise the URL is fetched
\* and merged. Failures of git are classified.
ImportExternalRepo(url, as_remote, name, outcome) ==
    LET clean == sanitize_url(url)
    IN
    /\ repo # None
    /\ IF ~isValidRepo
          THEN Ends("import", name, Returned) /\ remotes' = remotes
          ELSE IF as_remote
                  THEN IF name \in Names(remotes)
                          THEN /\ Ends("import", name, Returned)
                               /\ remotes' = SetUrl(remotes, name, clean)
                          ELSE IF CreateRemoteError(name) = <<>>
                                  THEN /\ Ends("import", name, Returned)
                                       /\ remotes' = Append(remotes,
                                             [name |-> name, url |-> clean])
                                  ELSE /\ Ends("import", name,
                                             Raised(ClassifyImport(
                                                CreateRemoteError(name))))
                                       /\ remotes' = remotes
                  ELSE /\ Ends("import", name,
                             IF GitRun(outcome) = <<>> THEN Returned
                             ELSE Raised(ClassifyImport(GitRun(outcome))))
                       /\ remotes' = remotes
    /\ UNCHANGED <<metadata, repo, head, syncpc, syncarg, synclog>>
    /\ UNCHANGED nonRepoVars

\* The mutant of PullFailureEndsSync: the push is made whatever pull did.
PullFailureIgnored == FALSE

\* syncWithRemote, lines 720-723: an exception of pull leaves the try block.
PullFailureEndsSync == TRUE

\* syncWithRemote up to the call of pull (lines 705-717): the branch is the
\* one given, else the current branch; reading the current branch fails
\* without the metadata and the error is wrapped.
SyncBegin(name, given) ==
    /\ repo # None
    /\ syncpc = "idle"
    /\ nop < MaxOps
    /\ IF ~isValidRepo
          THEN Ends("sync", name, Returned) /\ UNCHANGED <<syncpc, syncarg, synclog>>
          ELSE IF given = None /\ ~metadata
                  THEN /\ Ends("sync", name, Wrapped(<<Tok("no current branch")>>))
                       /\ UNCHANGED <<syncpc, syncarg, synclog>>
                  ELSE /\ syncpc' = "pull"
                       /\ syncarg' = [remote |-> name, given |-> given,
                                      branch |-> IF given = None THEN head ELSE given,
                                      valid |-> metadata]
                       /\ synclog' = <<>>
                       /\ UNCHANGED <<last, nop>>
    /\ UNCHANGED <<metadata, repo, remotes, head>>
    /\ UNCHANGED nonRepoVars

\* The end of syncWithRemote: return, or raise Exception(f"同步失败: {str(e)}").
SyncEnds(res) ==
    /\ nop' = nop + 1
    /\ last' = [op |-> "sync", arg |-> syncarg.remote, valid |-> syncarg.valid,
                res |-> res]
    /\ syncpc' = "idle"

\* line 720: self.pull(remote_name, branch).
SyncPull(outcome) ==
    LET res == PullResult(syncarg.remote, outcome)
        ran == syncarg.remote \in Names(remotes)
    IN
    /\ syncpc = "pull"
    /\ synclog' = IF ran
                     THEN Append(synclog, [cmd |-> "pull", remote |-> syncarg.remote,
                                           branch |-> syncarg.branch,
                                           ok |-> res = Returned])
                     ELSE synclog
    /\ IF res # Returned /\ PullFailureEndsSync
          THEN SyncEnds(res)
          ELSE syncpc' = "push" /\ UNCHANGED <<last, nop>>
    /\ UNCHANGED <<metadata, repo, remotes, head, syncarg>>
    /\ UNCHANGED nonRepoVars

\* line 721: self.push(remote_name, branch), and the return.
SyncPush(outcome) ==
    LET res == PushResult(syncarg.remote, outcome)
        ran == syncarg.remote \in Names(remotes)
    IN
    /\ syncpc = "push"
    /\ synclog' = IF ran
                     THEN Append(synclog, [cmd |-> "push", remote |-> syncarg.remote,
                                           branch |-> syncarg.branch,
                                           ok |-> res = Returned])
                     ELSE synclog
    /\ SyncEnds(res)
    /\ UNCHANGED <<metadata, repo, remotes, head, syncarg>>
    /\ UNCHANGED nonRepoVars

RepoNext ==
    \/ MakeRepository
    \/ RemoveMetadata
    \/ OpenRepo
    \/ \E op \in {"stage", "unstage", "commit"}, outcome \in ToolOutcomes :
          Uncaught(op, outcome)
    \/ \E op \in {"branch", "stash"}, outcome \in ToolOutcomes : Caught(op, outcome)
    \/ \E b \in BranchNames, outcome \in ToolOutcomes : CheckoutBranch(b, outcome)
    \/ \E name \in RemoteNames, outcome \in ToolOutcomes : Fetch(name, outcome)
    \/ \E name \in RemoteNames, outcome \in ToolOutcomes : Pull(name, outcome)
    \/ \E name \in RemoteNames, outcome \in ToolOutcomes : Push(name, outcome)
    \/ \E name \in RemoteNames, url \in Urls : AddRemote(name, url)
    \/ \E name \in RemoteNames : RemoveRemote(name)
    \/ \E url \in Urls, as_remote \in BOOLEAN, name \in RemoteNames,
          outcome \in ToolOutcomes : ImportExternalRepo(url, as_remote, name, outcome)
    \/ \E name \in RemoteNames, given \in BranchNames \cup {None} :
          SyncBegin(name, given)
    \/ \E outcome \in ToolOutcomes : SyncPull(outcome)
    \/ \E outcome \in ToolOutcomes : SyncPush(outcome)

----------------------------------------------------------------------------
\* A directory on disk, GitManager.initRepository (git_manager.py:24-55) and
\* GitManager.commit (lines 155-164) on it.

\* The number of steps taken on the directory.
MaxDirOps == 4

Files == {"README.md", "notes.txt"}

\* What a file holds: what the user wrote, what the user wrote later, or the
\* text initRepository writes (line 48).
UserContents == {"user", "edited"}

BaselineContent == "baseline"

NoFiles == [f \in Files |-> None]

\* Commit messages: strings of blanks and letters.
Chars == {" ", "x"}

Messages == UNION {[1..n -> Chars] : n \in 0..2}

\* git's cleanup of the message strips blanks: nothing is left of these.
IsBlank(m) == \A i \in DOMAIN m : m[i] = " "

\* '初始化仓库', the message of line 53.
BaselineMessage == <<"x">>

\* The tree of HEAD.
HeadTree == IF history = <<>> THEN NoFiles ELSE history[Len(history)].tree

\* os.listdir(path) is not empty (line 37).
NonEmpty == dotgit \/ \E f \in Files : worktree[f] # None

DirInit ==
    /\ exists = FALSE
    /\ worktree = NoFiles
    /\ dotgit = FALSE
    /\ hbranch = None
    /\ index = NoFiles
    /\ history = <<>>
    /\ dlast = [op |-> "none", via |-> None, branch |-> None, message |-> <<>>,
                res |-> Returned, event |-> None, before |-> NoFiles,
                nonempty |-> FALSE, wasrepo |-> FALSE, made |-> FALSE, at |-> 0]
    /\ ndir = 0

\* One more step on the directory.
DirStep == ndir < MaxDirOps /\ ndir' = ndir + 1

\* The user creates the directory.
MakeDir ==
    /\ DirStep
    /\ ~exists
    /\ exists' = TRUE
    /\ UNCHANGED <<worktree, dotgit, hbranch, index, history, dlast>>
    /\ UNCHANGED nonDirVars

\* The user writes a file in it.
WriteFile(f, c) ==
    /\ DirStep
    /\ exists
    /\ worktree[f] # c
    /\ worktree' = [worktree EXCEPT ![f] = c]
    /\ UNCHANGED <<exists, dotgit, hbranch, index, history, dlast>>
    /\ UNCHANGED nonDirVars

\* git init run by the user, outside the program.
GitInit(b) ==
    /\ DirStep
    /\ exists
    /\ ~dotgit
    /\ dotgit' = TRUE
    /\ hbranch' = b
    /\ index' = NoFiles
    /\ history' = <<>>
    /\ UNCHANGED <<exists, worktree, dlast>>
    /\ UNCHANGED nonDirVars

\* git.Repo.init(path, initial_branch=initial_branch), line 43.
InitialBranch(initial_branch) == initial_branch

\* A GitCommandError as git raised it, with git's text.
GitError(text) == RaisedRaw(<<Tok(text)>>)

\* What a finished call leaves in dlast.
DirCall(op, via, b, m, res, made) ==
    [op |-> op, via |-> via, branch |-> b, message |-> m, res |-> res,
     event |-> IF via = "executor"
                  THEN [success |-> res.outcome = "returned", name |-> op]
                  ELSE None,
     before |-> worktree, nonempty |-> exists /\ NonEmpty, wasrepo |-> dotgit,
     made |-> made, at |-> ndir']

\* initRepository(path, initial_branch), lines 33-55.  commitOk: git can
\* record the commit of line 53 (an author identity is configured).
InitRepository(via, initial_branch, commitOk) ==
    /\ DirStep
    /\ exists' = TRUE
    /\ IF NonEmpty /\ dotgit
          THEN /\ UNCHANGED <<worktree, dotgit, hbranch, index, history>>
               /\ dlast' = DirCall("init", via, initial_branch, <<>>, Returned, FALSE)
          ELSE /\ dotgit' = TRUE
               /\ hbranch' = InitialBranch(initial_branch)
               /\ worktree' = [worktree EXCEPT !["README.md"] = BaselineContent]
               /\ index' = [NoFiles EXCEPT !["README.md"] = BaselineContent]
               /\ IF commitOk
                     THEN /\ history' = <<[message |-> BaselineMessage,
                                           tree |-> index']>>
                          /\ dlast' = DirCall("init", via, initial_branch, <<>>,
                                              Returned, TRUE)
                     ELSE /\ history' = <<>>
                          /\ dlast' = DirCall("init", via, initial_branch, <<>>,
                                              GitError("please tell me who you are"),
                                              FALSE)
    /\ UNCHANGED nonDirVars

\* git add <paths> (stage, lines 123-137): a path that is neither in the
\* directory nor in the index is an error and nothing is staged.
AddFails(paths) == \E f \in paths : worktree[f] = None /\ index[f] = None

Staged(paths) == [f \in Files |-> IF f \in paths THEN worktree[f] ELSE index[f]]

\* commit(file_paths, message), lines 155-164, called on a GitManager bound to
\* the directory or by GitThread.run (git_thread.py:65-69, 102-106).  git
\* refuses when nothing is staged, and then when the message is blank.
Commit(via, paths, message) ==
    /\ DirStep
    /\ dotgit
    /\ IF AddFails(paths)
          THEN /\ UNCHANGED <<index, history>>
               /\ dlast' = DirCall("commit", via, None, message,
                                   GitError("did not match any files"), FALSE)
          ELSE /\ index' = Staged(paths)
               /\ IF index' = HeadTree
                     THEN /\ UNCHANGED history
                          /\ dlast' = DirCall("commit", via, None, message,
                                              GitError("nothing to commit"), FALSE)
                     ELSE IF IsBlank(message)
                     THEN /\ UNCHANGED history
                          /\ dlast' = DirCall("commit", via, None, message,
                                  GitError("aborting commit due to empty commit message"),
                                  FALSE)
                     ELSE /\ history' = Append(history, [message |-> message,
                                                         tree |-> index'])
                          /\ dlast' = DirCall("commit", via, None, message,
                                              Returned, TRUE)
    /\ UNCHANGED <<exists, worktree, dotgit, hbranch>>
    /\ UNCHANGED nonDirVars

Callers == {"handle", "executor"}

DirNext ==
    \/ MakeDir
    \/ \E f \in Files, c \in UserContents : WriteFile(f, c)
    \/ \E b \in BranchNames : GitInit(b)
    \/ \E via \in Callers, b \in BranchNames, commitOk \in BOOLEAN :
          InitRepository(via, b, commitOk)
    \/ \E via \in Callers, paths \in SUBSET Files, message \in Messages :
          Commit(via, paths, message)

----------------------------------------------------------------------------
\* sanitize_url called on a string, and again on what it returned.

\* The longest string given, in pieces.
MaxUrlLen == 4

UrlPieces == {"http", "git@", "github.com", ":", "/", ".git", " ", "x",
              "HeDass-OF", "fullwidth-(", "?"}

UrlInputs == UNION {[1..n -> UrlPieces] : n \in 0..MaxUrlLen}

\* No call of sanitize_url is under way.
UrlIdle ==
    /\ upc = "idle"
    /\ uin = <<>>
    /\ uout = <<>>
    /\ uagain = <<>>

UrlInit ==
    /\ upc = "input"
    /\ uin \in UrlInputs
    /\ uout = <<>>
    /\ uagain = <<>>

\* url = GitManager.sanitize_url(url), as in lines 374, 673, 737.
Sanitize ==
    /\ upc = "input"
    /\ uout' = sanitize_url(uin)
    /\ upc' = "once"
    /\ UNCHANGED <<uin, uagain>>
    /\ UNCHANGED nonUrlVars

\* The result is given to sanitize_url again (git_panel.py:1094 and then
\* addRemote, line 374).
SanitizeAgain ==
    /\ upc = "once"
    /\ uagain' = sanitize_url(uout)
    /\ upc' = "twice"
    /\ UNCHANGED <<uin, uout>>
    /\ UNCHANGED nonUrlVars

UrlNext == Sanitize \/ SanitizeAgain

----------------------------------------------------------------------------
\* GitPanel's requests (git_panel.py): a handler sets the executor up and
\* starts it; initializeRepository (lines 456-495) and cloneRepositoryAsync
\* (lines 1987-2022) also connect a slot to operationFinished that disconnects
\* itself when it is called.

\* The operations requested: init and clone pass no handle, pull passes the
\* panel's handle and connects nothing.
RequestOps == {"init", "clone", "pull"}

OneShotOps == {"init", "clone"}

HandleFor(op) == IF op \in OneShotOps THEN None ELSE Handle

NoHandler == [op |-> None, id |-> 0, nsetup |-> 0, nstart |-> 0, run |-> 0,
              connected |-> FALSE]

SubInit ==
    /\ handler = NoHandler
    /\ subs = {}
    /\ invoked = {}
    /\ requests = <<>>

\* start() calls made so far, ignored or not.
StartsMade == run + ignored

\* The handler has called setup(), start().
SetUpDone == nsetup = handler.nsetup + 1 /\ uipc = "idle"

StartDone == StartsMade = handler.nstart + 1

\* The user asks for an operation: the UI thread enters the handler.
BeginRequest(op) ==
    /\ handler = NoHandler
    /\ uipc = "idle"
    /\ CallsMade + 2 <= MaxCalls
    /\ handler' = [op |-> op, id |-> Len(requests) + 1, nsetup |-> nsetup,
                   nstart |-> StartsMade, run |-> run, connected |-> FALSE]
    /\ UNCHANGED <<subs, invoked, requests>>
    /\ UNCHANGED <<execVars, nonPanelVars>>

\* self.gitThread.setup(operation=..., git_manager=..., ...).
RequestSetup ==
    /\ handler # NoHandler
    /\ nsetup = handler.nsetup
    /\ SetupOperation(handler.op, HandleFor(handler.op))

\* cloneRepositoryAsync connects (line 2019) and then starts (line 2022);
\* initializeRepository starts (line 463) and then connects (line 495).
ConnectsBeforeStart(op) == op = "clone"

\* self.gitThread.start().
RequestStart ==
    /\ handler # NoHandler
    /\ SetUpDone
    /\ ~StartDone
    /\ (handler.op \in OneShotOps /\ ConnectsBeforeStart(handler.op)) => handler.connected
    /\ StartRecorded

\* self.gitThread.operationFinished.connect(on_<op>_finished): the slot gets
\* the events emitted from now on.
Connect ==
    /\ handler # NoHandler
    /\ handler.op \in OneShotOps
    /\ ~handler.connected
    /\ SetUpDone
    /\ StartDone <=> ~ConnectsBeforeStart(handler.op)
    /\ subs' = subs \cup {[id |-> handler.id, op |-> handler.op,
                           since |-> Len(events)]}
    /\ handler' = [handler EXCEPT !.connected = TRUE]
    /\ UNCHANGED <<invoked, requests>>
    /\ UNCHANGED <<execVars, nonPanelVars>>

\* The handler returns to the event loop.  The run of the request is the one
\* its start() began, 0 if that start() was ignored.
EndRequest ==
    /\ handler # NoHandler
    /\ SetUpDone
    /\ StartDone
    /\ handler.op \in OneShotOps => handler.connected
    /\ requests' = Append(requests,
          [op |-> handler.op, run |-> IF run > handler.run THEN run ELSE 0])
    /\ handler' = NoHandler
    /\ UNCHANGED <<subs, invoked>>
    /\ UNCHANGED <<execVars, nonPanelVars>>

\* The slots a queued finished event is delivered to: those connected when it
\* was emitted and still connected now.
Receivers(j) ==
    IF events[j].sig = "finished" THEN {sb \in subs : sb.since < j} ELSE {}

\* The event loop takes the next event: onGitOperationStarted or
\* onGitOperationFinished, then on_<op>_finished of each one-shot slot, which
\* disconnects itself (lines 492, 2016).
ProcessEventSlots ==
    /\ handler = NoHandler
    /\ DeliverEvent
    /\ invoked' = invoked \cup {[id |-> sb.id, ev |-> delivered + 1] :
                                  sb \in Receivers(delivered + 1)}
    /\ subs' = subs \ Receivers(delivered + 1)
    /\ UNCHANGED <<handler, requests>>

\* The worker's steps: run().  Its else branch (lines 92-96) is not among them:
\* every name the panel passes to setup() has a branch, and the chain misses a
\* name only when setup() is called three times during one run, which two
\* requests cannot do (NoUnknownBranch).
RunSteps ==
    \/ \E r \in Runs : RunCheck(r)
    \/ \E r \in Runs : RunEmitStarted(r)
    \/ \E r \in Runs : RunTest(r)
    \/ \E r \in Runs : RunInvoke(r)
    \/ \E r \in Runs, outcome \in {NoErr} \cup OpErrors : RunOpReturn(r, outcome)
    \/ \E r \in Runs : RunEmitOk(r)
    \/ \E r \in Runs : RunExcept(r)
    \/ \E r \in Runs : RunReturn(r)

NoUnknownBranch == \A r \in Runs : wpc[r] # "unknown"

SubscriberNext ==
    \/ \E op \in RequestOps : BeginRequest(op)
    \/ RequestSetup
    \/ handler # NoHandler /\ SetupHandle
    \/ handler # NoHandler /\ SetupParams
    \/ RequestStart
    \/ Connect
    \/ EndRequest
    \/ ProcessEventSlots
    \/ RunSteps

----------------------------------------------------------------------------
Init ==
    ExecInit /\ OAuthInit /\ PortInit /\ ClassifyIdle /\ RepoInit /\ DirInit /\ UrlIdle
       /\ SubInit

Next == ExecNext

Spec == Init /\ [][Next]_vars

PanelSpec == Init /\ [][PanelNext]_vars

RecordedSpec == Init /\ [][RecordedNext]_vars

SubscriberSpec == Init /\ [][SubscriberNext]_vars

OAuthSpec == Init /\ [][OAuthNext]_vars

ListenerSpec == Init /\ [][ListenerNext]_vars

PortSpec == Init /\ [][PortNext]_vars

RepoSpec == Init /\ [][RepoNext]_vars

DirSpec == Init /\ [][DirNext]_vars

\* The state in which a git command of some operation is about to fail.
ClassifyStart ==
    ExecInit /\ OAuthInit /\ PortInit /\ ClassifyInit /\ RepoInit /\ DirInit /\ UrlIdle
       /\ SubInit

\* The state in which sanitize_url is about to be called with some string.
UrlStart ==
    ExecInit /\ OAuthInit /\ PortInit /\ ClassifyIdle /\ RepoInit /\ DirInit /\ UrlInit
       /\ SubInit

UrlSpec == UrlStart /\ [][UrlNext]_vars

ClassifySpec == ClassifyStart /\ [][ClassifyNext]_vars

----------------------------------------------------------------------------
\* Properties of the executor.

FinishedOf(r) ==
    {i \in DOMAIN events : events[i].sig = "finished" /\ events[i].run = r}

StartedOf(r) ==
    {i \in DOMAIN events : events[i].sig = "started" /\ events[i].run = r}

\* C1: at most one run of the worker is executing at any time; a start() made
\* while the thread is running begins no second run.
C1_SingleFlight ==
    /\ Cardinality({r \in Runs : Active(r)}) <= 1
    /\ running <=> (\E r \in Runs : Active(r))
    /\ \A r \in Runs : Active(r) => r = run

\* A start() was ignored and the run it met is inside its operation.
C1_Witness ==
    /\ ignored >= 1
    /\ \E r \in Runs : wpc[r] = "in_op"

\* C2: every run emits exactly one finished event, on each of its paths, and
\* there are never more finished events than runs begun.
C2_OneFinishedPerRun ==
    /\ \A r \in Runs :
          /\ Cardinality(FinishedOf(r)) <= 1
          /\ wpc[r] \in {"return", "done"} => Cardinality(FinishedOf(r)) = 1
          /\ wpc[r] = "none" => FinishedOf(r) = {}
    /\ \A i \in DOMAIN events : events[i].run \in 1..run

\* Two runs have ended, one on the unknown-name path and one on another path,
\* and a start() was ignored in between.
C2_Witness ==
    /\ ignored >= 1
    /\ \E r1, r2 \in Runs :
          /\ r1 # r2
          /\ wpc[r1] = "done"
          /\ wpc[r2] = "done"
          /\ \E i \in FinishedOf(r1) : events[i].msg[1] = "unknown_operation"
          /\ \E i \in FinishedOf(r2) : events[i].msg[1] # "unknown_operation"

\* C3: every finished event is preceded by a started event of its run, nothing
\* of a run follows its finished event, and the events of two runs do not
\* interleave.
C3_StartedThenFinished ==
    /\ \A j \in DOMAIN events :
          events[j].sig = "finished" =>
             \E i \in 1..(j - 1) :
                events[i].sig = "started" /\ events[i].run = events[j].run
    /\ \A i, j \in DOMAIN events :
          (i < j /\ events[i].sig = "finished") => events[j].run # events[i].run
    /\ \A i, j, k \in DOMAIN events :
          (i < j /\ j < k /\ events[i].run = events[k].run)
             => events[j].run = events[i].run

\* C4: an exception raised inside run() never escapes it: the run emits
\* finished(False, name, str(e)), returns, and the thread can be started again.
C4_ErrorsBecomeFinished ==
    \A r \in Runs :
       werr[r] # NoErr =>
          /\ wpc[r] \in {"except", "return", "done"}
          /\ wpc[r] \in {"return", "done"} =>
                \E i \in FinishedOf(r) :
                   /\ events[i].ok = FALSE
                   /\ events[i].msg = <<"error", werr[r].msg>>
          /\ (wpc[r] = "done" /\ r = run) => ~StartIgnored

\* An operation raised in a run, and a later run was begun after it.
C4_Witness ==
    \E r \in Runs :
       /\ werr[r] \in OpErrors
       /\ werr[r].cls = "Exception"
       /\ wpc[r] = "done"
       /\ run > r

\* C5: a run that finds init or clone set up with no handle calls the factory
\* operation and emits started(name) and then finished(ok, name, ...).
C5_FactoryRuns ==
    \A r \in Runs :
       (wpc[r] = "done" /\ seen[r].op \in {"init", "clone"} /\ seen[r].gm = None) =>
          /\ \E c \in DOMAIN calls :
                calls[c].run = r /\ calls[c].branch = seen[r].op
          /\ \E i \in StartedOf(r), j \in FinishedOf(r) :
                /\ i < j
                /\ events[i].op = seen[r].op
                /\ events[j].op = seen[r].op

\* C6: at most one operation is in flight on the handle.
C6_OneOperationPerHandle == Cardinality(inflight) <= 1

\* C7: the operation stored by one setup() call is executed at most once.
C7_ExecutedAtMostOnce ==
    \A i, j \in DOMAIN calls :
       (/\ calls[i].params = calls[j].params
        /\ calls[i].params > 0
        /\ calls[i].branch = calls[j].branch) => i = j

----------------------------------------------------------------------------
\* Properties of the OAuth callback listener.

\* The listener is Stopped: the serve loop has exited and self.server is cleared.
Stopped == server = None /\ opc.srv \in {"none", "exited"}

\* A request on a provider's callback path that carries a code.
IsCodeCallback(req) == ProviderOf(req.path) # None /\ req.query.code # None

\* A request on a provider's callback path that carries an error and no code.
IsErrorCallback(req) ==
    ProviderOf(req.path) # None /\ req.query.code = None /\ req.query.error

SuccessDelivered(req) ==
    \E k \in DOMAIN signals :
       /\ signals[k].sig = "success"
       /\ signals[k].provider = ProviderOf(req.path)
       /\ signals[k].arg = req.query.code
       /\ signals[k].req = req.id

\* C8: a callback request that carries a code is answered 200 and its code is
\* delivered with the provider's success signal: while the request is being
\* handled the serving thread can go on, and once it is answered the answer is
\* 200 and the signal has been emitted.
C8_CodeCallbackAnswered ==
    /\ IsCodeCallback(cur) => ENABLED ServerThreadNext
    /\ \A i \in DOMAIN responses :
          IsCodeCallback(responses[i].req) =>
             responses[i].status = 200 /\ SuccessDelivered(responses[i].req)

\* C9: once a callback has delivered its code, the listener stops with no
\* further input: it is Stopped (the serve loop has exited and self.server is
\* cleared), or the serving thread can still take a step towards that.
C9_StopsAfterResolution ==
    (\E k \in DOMAIN signals : signals[k].sig = "success" /\ signals[k].req > 0)
       => (Stopped \/ ENABLED ServerThreadNext)

\* C10: a callback request that carries an error and no code is answered 400
\* and the provider's failure signal is emitted for it.
C10_ErrorCallbackResolves ==
    \A i \in DOMAIN responses :
       IsErrorCallback(responses[i].req) =>
          /\ responses[i].status = 400
          /\ \E k \in DOMAIN signals :
                /\ signals[k].sig = "failed"
                /\ signals[k].provider = ProviderOf(responses[i].req.path)
                /\ signals[k].req = responses[i].req.id

\* The listener is Listening: self.server is set and the serve loop has not exited.
Listening == server # None /\ opc.srv \notin {"none", "exited"}

\* The sessions of provider p: the flows whose authorization URL was opened.
SessionsOf(p) == {i \in DOMAIN opened : opened[i].provider = p}

\* The success results session i received: the success signals of its provider
\* that request handlers emitted after it began and before the provider's next
\* session began.
ResultsOf(i) ==
    {k \in DOMAIN signals :
        /\ signals[k].sig = "success"
        /\ signals[k].provider = opened[i].provider
        /\ signals[k].req > 0
        /\ k > opened[i].at
        /\ \A j \in SessionsOf(opened[i].provider) : j > i => k <= opened[j].at}

\* A callback with a code for provider p is waiting on the listening socket.
CodeCallbackWaiting(p) ==
    \E n \in DOMAIN backlog :
       backlog[n].path = CallbackPath(p) /\ backlog[n].query.code # None

\* C11: the callbacks with a code on /github/callback deliver the success result
\* of a session exactly once: never twice, and as long as the session has no
\* result and such a callback is waiting, the serving thread can still take it up
\* (stop_server not having been called from outside).
C11_SuccessExactlyOnce ==
    \A i \in SessionsOf("github") :
       /\ Cardinality(ResultsOf(i)) <= 1
       /\ (/\ ResultsOf(i) = {}
           /\ \A j \in SessionsOf("github") : j <= i
           /\ CodeCallbackWaiting("github")
           /\ nstop = 0) => ENABLED ServerThreadNext

\* C12: the dialog is never closed while the listener is Listening and a session
\* is unresolved.
C12_CloseCancelsFlow == ~(dialog = "closed" /\ Listening /\ pending # {})

\* C13: stop_server called with no server (never started, or stopped before)
\* returns normally, leaves the listener Stopped and changes nothing else.
C13_StopWithoutServer ==
    [][(nstop' = nstop + 1 /\ server = None) =>
          /\ Stopped'
          /\ opc'.ui = "idle"
          /\ UNCHANGED <<server, server_thread, port, github_redirect_uri,
                         gitlab_redirect_uri, client_id, shutdown_request,
                         is_shut_down, opc, backlog, cur, reply, responses, signals,
                         opened, pending, nreq, nflow, bound, dialog>>]_vars

\* stop_server was called twice from the UI thread, one call stopped a running
\* listener, and both have returned.
C13_Witness ==
    /\ nstop = 2
    /\ server = None
    /\ opc.ui = "idle"
    /\ opc.srv = "exited"

\* C15: while self.server is set, self.port is the port its socket is bound to
\* and both redirect URIs are http://localhost:<that port>/<provider>/callback;
\* each authorization URL given to the browser embeds the redirect URI of its
\* provider with the port the server is bound to.
C15_RedirectUrisMatchPort ==
    /\ [](server # None =>
             /\ port = bound
             /\ github_redirect_uri =
                   [host |-> "localhost", port |-> bound, path |-> "/github/callback"]
             /\ gitlab_redirect_uri =
                   [host |-> "localhost", port |-> bound, path |-> "/gitlab/callback"])
    /\ [][opened' # opened =>
             /\ server' # None
             /\ opened'[Len(opened')].redirect_uri =
                   [host |-> "localhost", port |-> bound',
                    path |-> CallbackPath(opened'[Len(opened')].provider)]]_vars

\* The server is bound to a port the system assigned and an authorization URL
\* with that port was opened.
C15_Witness ==
    /\ server # None
    /\ bound = 49152
    /\ opened # <<>>
    /\ opened[Len(opened)].redirect_uri.port = 49152

\* A request on a path that is no provider's callback path.
OtherPath(req) ==
    req.id > 0 /\ req.path \notin {"/github/callback", "/gitlab/callback"}

\* C16: a request on any other path is answered 404 and no signal is emitted for
\* it; the steps that handle it leave the server, its port, the redirect URIs,
\* the signals and the pending sessions as they are.
C16_OtherPathNotFound ==
    /\ [](\A i \in DOMAIN responses :
             OtherPath(responses[i].req) =>
                /\ responses[i].status = 404
                /\ \A k \in DOMAIN signals : signals[k].req # responses[i].req.id)
    /\ [][(OtherPath(cur) /\ opc'.srv # opc.srv) =>
             UNCHANGED <<server, server_thread, port, bound, github_redirect_uri,
                         gitlab_redirect_uri, signals, pending>>]_vars

\* A request on another path that carried a code was answered 404 and the
\* listener is still Listening.
C16_Witness ==
    /\ Listening
    /\ \E i \in DOMAIN responses :
          /\ responses[i].req.path = "/favicon.ico"
          /\ responses[i].req.query.code = "c1"
          /\ responses[i].status = 404

\* The candidates tried before and up to the n-th bind attempt of a call, in
\* the order find_available_port must try them.
ProbeOrder(n) ==
    IF n <= Len(AvailablePorts) THEN AvailablePorts[n] ELSE EphemeralPort

\* C14: when start_server has returned with a port selected, that port is the
\* first of the candidate order that its bind attempt found free (every
\* candidate before it was found taken, and the system's port is used only after
\* all six were), and the listener is Listening on exactly that port.
C14_FirstFreePortListening ==
    (ppc \in {"listening", "failed"} /\ nstart > 0 /\ selected # NoPort) =>
       /\ probes # <<>>
       /\ \A n \in DOMAIN probes :
             /\ probes[n].port = ProbeOrder(n)
             /\ probes[n].free <=> n = Len(probes)
       /\ selected = probes[Len(probes)].port
       /\ ppc = "listening"
       /\ lport = selected

\* The rules of operation op as the source lists them: a rule is the set of
\* phrases that must all occur in the lowered text.
Rules(op, branch) ==
    {{"could not resolve host"}, {"authentication failed"}, {"not a git repository"}}
    \cup (IF op \in {"pull", "push"} THEN {{"no such remote"}} ELSE {})
    \cup (IF op = "push"
             THEN {{"not authorized"}, {"repository not found"}, {"refused"},
                   {"remote contains work that you do"}, {"reject"}}
             ELSE {})
    \cup (IF op = "clone" THEN {{"already exists", "destination path"}} ELSE {})
    \cup (IF op = "clone" /\ branch THEN {{"couldn't find remote ref"}} ELSE {})
    \cup (IF op = "import" THEN {{"already exists", "remote"}} ELSE {})

\* Some rule of op applies to the text, whatever the case of its letters.
MatchesRule(op, text, branch) ==
    \E rule \in Rules(op, branch) :
       \A ph \in rule : \E i \in DOMAIN text : text[i].w = ph

\* C20: in pull, push, clone and importExternalRepo a failure text that is
\* "authentication failed" (in any letter case) is classified as
\* AuthenticationFailed, and a text that no rule of the operation matches is
\* reported as unclassified with the original text unchanged in the message.
C20_Classification ==
    cresult # NoResult =>
       /\ (Len(ctext) = 1 /\ ctext[1].w = "authentication failed") =>
             cresult.kind = "authentication_failed"
       /\ ~MatchesRule(cop, ctext, cbranch) =>
             cresult = [kind |-> "unclassified", raw |-> ctext]

\* An unrecognised text with a capital in it was reported unclassified.
C20_Witness ==
    /\ cresult.kind = "unclassified"
    /\ Len(ctext) = 2
    /\ ctext[1] = [w |-> "unexpected disconnect", up |-> TRUE]
    /\ cop = "import"

----------------------------------------------------------------------------
\* Properties of the GitManager.

MutatingOps == {"stage", "unstage", "commit", "push", "pull", "fetch", "branch",
                "addRemote", "removeRemote", "import", "stash", "sync"}

\* The call ended with an error that says the directory is no repository: the
\* message of that kind, or git's own words passed on in the message.
NotARepositoryError(res) ==
    /\ res.outcome = "raised"
    /\ \/ res.kind = "not_a_repository"
       \/ \E i \in DOMAIN res.raw : res.raw[i].w = "not a git repository"

\* C17: a mutating operation called while the directory holds no repository
\* metadata ends with a NotARepository error, never with a normal return or
\* another error.
C17_InvalidHandleRejects ==
    (last.op \in MutatingOps /\ ~last.valid) => NotARepositoryError(last.res)

\* C18: syncWithRemote runs git pull and then git push with the remote given
\* and one branch, the one given or else the branch that was current when it
\* began; a push is only made after a pull that succeeded, and when pull fails
\* the call ends there with an exception.
C18_SyncPullThenPush ==
    /\ [](/\ Len(synclog) <= 2
          /\ \A i \in DOMAIN synclog :
                /\ synclog[i].cmd = (IF i = 1 THEN "pull" ELSE "push")
                /\ synclog[i].remote = syncarg.remote
                /\ synclog[i].branch = syncarg.branch
                /\ i = 2 => synclog[1].ok)
    /\ [][(syncpc = "idle" /\ syncpc' = "pull") =>
             syncarg'.branch = (IF syncarg'.given = None THEN head
                                ELSE syncarg'.given)]_vars
    /\ [][(syncpc = "pull" /\ syncpc' = "idle") =>
             /\ last'.op = "sync"
             /\ last'.res.outcome = "raised"
             /\ \A i \in DOMAIN synclog' : synclog'[i].cmd = "pull"]_vars
    /\ [][(syncpc = "pull" /\ syncpc' = "push") =>
             /\ synclog' # <<>>
             /\ synclog'[Len(synclog')].ok]_vars

\* A sync with no branch given has pulled and pushed while another branch was
\* checked out in between.
C18_Witness ==
    /\ Len(synclog) = 2
    /\ syncpc = "idle"
    /\ syncarg.given = None
    /\ syncarg.branch # head
    /\ last.op = "sync"
    /\ last.res = Returned

\* C19: no two remotes have the same name, and addRemote with a name that
\* exists raises, saying so, and leaves the remotes as they are.
C19_RemoteNamesUnique ==
    /\ [](\A i, j \in DOMAIN remotes : remotes[i].name = remotes[j].name => i = j)
    /\ [][(nop' = nop + 1 /\ last'.op = "addRemote" /\ last'.arg \in Names(remotes)) =>
             /\ last'.res.outcome = "raised"
             /\ \E i \in DOMAIN last'.res.raw :
                   last'.res.raw[i].w = "remote of that name exists"
             /\ remotes' = remotes]_vars

\* importExternalRepo created a remote and addRemote with its name and another
\* URL was rejected.
C19_Witness ==
    /\ last.op = "addRemote"
    /\ last.res.outcome = "raised"
    /\ \E i \in DOMAIN remotes :
          remotes[i] = [name |-> last.arg,
                        url |-> <<"http", "s", ":", "/", "/", "github.com", "/",
                                  "user", "/", "repo", ".git">>]
    /\ nop = 3

\* The kinds an error can carry: the taxonomy, with unclassified as fallback.
TaxonomyKinds == {"host_unreachable", "authentication_failed", "not_a_repository",
                  "remote_not_found", "push_refused", "push_rejected_needs_pull",
                  "remote_already_exists", "unclassified"}

SurfacingOps == {"pull", "push", "fetch", "branch", "addRemote", "removeRemote",
                 "stash", "sync"}

\* The operations that talk to the remote.
NetworkOps == {"pull", "push", "fetch", "sync"}

\* C21: a failure of pull, push, fetch, createBranch, addRemote, removeRemote,
\* stash or sync carries a kind of the taxonomy chosen from git's failure
\* text: when git could not resolve the host the error is HostUnreachable for
\* every operation that talks to the remote, never the unclassified text.
C21_SameTextSameKind ==
    (last.op \in SurfacingOps /\ last.valid /\ last.res.outcome = "raised") =>
       /\ last.res.kind \in TaxonomyKinds
       /\ last.op \in NetworkOps =>
             \A i \in DOMAIN last.res.raw :
                last.res.raw[i].w # "could not resolve host"

----------------------------------------------------------------------------
\* Properties of initRepository and commit.

\* The call failed saying the message is empty: an error of that kind, or
\* git's own words passed on.
EmptyMessageError(res) ==
    /\ res.outcome = "raised"
    /\ \/ res.kind = "empty_message"
       \/ \E i \in DOMAIN res.raw :
             res.raw[i].w = "aborting commit due to empty commit message"

\* C22: commit with a blank message fails with EmptyMessage and creates no
\* commit, called on the handle or run by the executor, which then emits
\* finished(false, commit, ...).
C22_BlankMessageRejected ==
    (dlast.op = "commit" /\ IsBlank(dlast.message)) =>
       /\ EmptyMessageError(dlast.res)
       /\ ~dlast.made
       /\ dlast.via = "executor" =>
             dlast.event = [success |-> FALSE, name |-> "commit"]

\* An initRepository call returns in this step.
InitReturns == dlast' # dlast /\ dlast'.op = "init" /\ dlast'.res = Returned

\* Commit i of history h adds README.md.
AddsReadme(h, i) ==
    /\ h[i].tree["README.md"] # None
    /\ i = 1 \/ h[i - 1].tree["README.md"] = None

\* A repository on branch b whose history has a commit adding README.md.
InitPostcondition(b) ==
    /\ exists'
    /\ dotgit'
    /\ hbranch' = b
    /\ \E i \in DOMAIN history' : AddsReadme(history', i)

\* C23: after initRepository(path, initialBranch) returns, path holds a
\* repository on initialBranch whose history contains the commit adding
\* README.md, whatever path was before (absent, empty, non-empty, a repository).
C23_InitPostcondition ==
    [][InitReturns => InitPostcondition(dlast'.branch)]_vars

\* C30: initRepository on a directory that exists and is not empty leaves
\* every file that was there with the content it had, README.md included,
\* whether or not the directory was a repository.
C30_InitKeepsFiles ==
    [][(dlast' # dlast /\ dlast'.op = "init" /\ dlast'.nonempty) =>
          \A f \in Files : worktree[f] # None => worktree'[f] = worktree[f]]_vars

----------------------------------------------------------------------------
\* Properties of sanitize_url.

\* C24: sanitize_url is idempotent: applied to its own result it returns that
\* result unchanged.
C24_SanitizeIdempotent == upc = "twice" => uagain = uout

\* Pieces a user or repository name is made of; a name may begin with the
\* letters http, as httpie does.
NamePieces == {"x", "http", "HeDass-OF"}

IsName(s) == s # <<>> /\ \A i \in DOMAIN s : s[i] \in NamePieces

\* The string is owner/repo: two names with one slash between them.
IsOwnerRepo(s) ==
    \E i \in DOMAIN s :
       /\ s[i] = "/"
       /\ IsName(SubSeq(s, 1, i - 1))
       /\ IsName(SubSeq(s, i + 1, Len(s)))

\* C25: for an input of the form owner/repo (one slash, no scheme, no git@
\* prefix) sanitize_url returns https://github.com/owner/repo.git.
C25_ShorthandExpanded ==
    (upc # "input" /\ IsOwnerRepo(uin)) =>
       uout = <<"http", "s", ":", "/", "/", "github.com", "/">> \o uin \o <<".git">>

\* The string without the blanks around it.
Trimmed(s) ==
    LET inside == {i \in DOMAIN s : s[i] # " "}
    IN  IF inside = {} THEN <<>>
        ELSE SubSeq(s, CHOOSE i \in inside : \A j \in inside : i <= j,
                       CHOOSE i \in inside : \A j \in inside : i >= j)

\* C26: for an input that starts with git@ once the blanks around it are
\* removed, sanitize_url returns exactly that trimmed input: nothing is
\* replaced and no .git is appended.
C26_SshUntouched ==
    (upc # "input" /\ Trimmed(uin) # <<>> /\ Trimmed(uin)[1] = "git@") =>
       uout = Trimmed(uin)

----------------------------------------------------------------------------
\* Properties of a run and the fields it reads.

\* C27: the finished event of a run carries the operation name of its started
\* event, and the operation the run invokes is the one set up before start(),
\* with the parameters and the handle set up before start(), also when setup()
\* is called again while the run is under way.
C27_RunUsesItsSetup ==
    /\ \A r \in Runs :
          \A i \in StartedOf(r), j \in FinishedOf(r) : events[i].op = events[j].op
    /\ \A c \in DOMAIN calls :
          /\ calls[c].branch = atstart[calls[c].run].op
          /\ calls[c].params = atstart[calls[c].run].params
          /\ calls[c].gm = atstart[calls[c].run].gm

----------------------------------------------------------------------------
\* Two providers on one listener.

Other(p) == IF p = "github" THEN "gitlab" ELSE "github"

\* A callback of provider p has delivered its code.
Resolved(p) ==
    \E k \in DOMAIN signals :
       signals[k].sig = "success" /\ signals[k].provider = p /\ signals[k].req > 0

\* The requests sent so far: waiting, being served or answered.
RequestsSent ==
    {backlog[n] : n \in DOMAIN backlog}
       \cup {responses[n].req : n \in DOMAIN responses}
       \cup (IF cur = NoRequest THEN {} ELSE {cur})

\* C29: with a GitHub and a GitLab flow pending on one listener, a callback on
\* one provider's path resolves that provider's session only, and the other
\* provider's session can still be resolved by its own callback: while that
\* callback is waiting, the serving thread can go on to take it up (stop_server
\* not having been called from outside).
C29_ProvidersIndependent ==
    /\ \A k \in DOMAIN signals, rq \in RequestsSent :
          (signals[k].sig = "success" /\ signals[k].req = rq.id) =>
             /\ signals[k].provider = ProviderOf(rq.path)
             /\ (Other(signals[k].provider) \in pending
                    \/ Resolved(Other(signals[k].provider))
                    \/ SessionsOf(Other(signals[k].provider)) = {}
                    \/ \E m \in DOMAIN signals :
                          /\ signals[m].sig = "failed"
                          /\ signals[m].provider = Other(signals[k].provider))
    /\ \A p \in Providers :
          (/\ SessionsOf(p) # {}
           /\ SessionsOf(Other(p)) # {}
           /\ Resolved(p)
           /\ Other(p) \in pending
           /\ ~Resolved(Other(p))
           /\ CodeCallbackWaiting(Other(p))
           /\ nstop = 0) => ENABLED ServerThreadNext

----------------------------------------------------------------------------
\* C28: a one-shot slot connected for an init or clone request is called at most
\* once, and only for the finished event of the run its own request's start()
\* began; a slot that is still connected belongs to a request whose start()
\* began a run, and that run had not emitted its finished event when the slot
\* was connected; and once that event has been taken from the queue the slot
\* has been called.
OneShotRequests == {i \in 1..Len(requests) : requests[i].op \in OneShotOps}

CallsOf(i) == {x \in invoked : x.id = i}

OwnFinished(i) ==
    {j \in 1..Len(events) :
        events[j].sig = "finished" /\ events[j].run = requests[i].run}

C28_OneShotOwnEventOnly ==
    \A i \in OneShotRequests :
        /\ Cardinality(CallsOf(i)) <= 1
        /\ \A x \in CallsOf(i) : x.ev \in OwnFinished(i)
        /\ \A sb \in subs :
              sb.id = i => /\ requests[i].run # 0
                           /\ \A j \in OwnFinished(i) : j > sb.since
        /\ \A j \in OwnFinished(i) : j <= delivered => CallsOf(i) # {}

====
